---- MODULE Spec2Model ----
(***************************************************************************)
(* Schema synchronisation of one model (BaseModel.syncDB and               *)
(* BaseModel._sync_model_definition of src/lib/orm/base_model.js).         *)
(*                                                                         *)
(* The table builder, the normalizer and the search/graph builders are     *)
(* collaborators: every call to them is a pending operation whose reply    *)
(* (success or error) is chosen by the environment.                        *)
(*                                                                         *)
(* The table-scoped operations (find, update, delete, save, truncate,      *)
(* stream, eachRow) go through the readiness gate of _execute_table_query; *)
(* the statement builders are operators applied to bounded inputs.         *)
(***************************************************************************)
EXTENDS Integers, Sequences, FiniteSets, TLC

\* ------------------------------------------------------------------ bounds
\* number of syncDB calls made on the model, one after the other
MaxSyncs == 1
\* number of table-scoped operations called on the model
MaxOps == 1
\* number of items declared under each of udts and udfs
MaxItems == 2
\* number of items declared under udas
MaxAggregates == 1
\* the calls of init on one instance
MaxInits == 2
\* the direct calls of create_es_client and create_gremlin_client
MaxDirect == 1

\* ------------------------------------------------------------ option values
\* an optional JavaScript value: None is undefined, Some(x) is the value x
None == <<>>
Some(x) == <<x>>

NoErr == "null"
Undefined == "undefined"

\* ------------------------------------------------------------ schema inputs
\* spellings of a column type; the normalizer folds them to one token
TypeSpellings == {"text", "TEXT"}
LiveTypes == {"text", "int"}
\* a type string the normalizer cannot parse
MalformedType == "map<text"

\* key structures: partition key, clustering key, clustering order
KeyAsc ==
  [key |-> [partition |-> <<"id">>, clustering |-> <<"ts">>],
   clustering_order |-> << <<"ts", "asc">> >>]
KeyDesc ==
  [key |-> [partition |-> <<"id">>, clustering |-> <<"ts">>],
   clustering_order |-> << <<"ts", "desc">> >>]
KeyComposite ==
  [key |-> [partition |-> <<"id", "name">>, clustering |-> <<"ts">>],
   clustering_order |-> << <<"ts", "asc">> >>]
DeclaredKeyShapes == {KeyAsc, KeyDesc}
LiveKeyShapes == {KeyAsc, KeyDesc, KeyComposite}

\* dependent objects a schema may declare
IndexDecls == {None, Some(<<"name">>)}
CustomIndexesDecls == {None, Some(<<"ci_name">>)}
CustomIndexDecls == {None, Some("ci_ts")}
ViewDecls == {None, Some({"view1"})}

MkSchema(t, k, ix, cixs, cix, mv) ==
  [fields |-> [id |-> "uuid", name |-> t, ts |-> "timestamp"],
   key |-> k.key,
   clustering_order |-> k.clustering_order,
   indexes |-> ix,
   custom_indexes |-> cixs,
   custom_index |-> cix,
   materialized_views |-> mv]

\* schemas a model may declare
DeclaredSchemas ==
  { MkSchema(t, k, ix, cixs, cix, mv) :
      t \in TypeSpellings \cup {MalformedType}, k \in DeclaredKeyShapes, ix \in IndexDecls,
      cixs \in CustomIndexesDecls, cix \in CustomIndexDecls, mv \in ViewDecls }

\* what introspection may report for an existing table
LiveSchemas ==
  { MkSchema(t, k, None, None, None, mv) :
      t \in LiveTypes, k \in LiveKeyShapes, mv \in ViewDecls }

MigrationSettings == {None, Some("safe"), Some("alter"), Some("drop"), Some("bogus")}
Environments == {"production", "development"}
\* createTable: unset or false (true behaves as unset)
CreateTableSettings == {None, Some(FALSE)}

\* search and graph sinks: both clients with both mappings, or a search client
\* without a mapping and a graph mapping without a client (nothing to sync)
SinkConfigs ==
  { [esclient |-> TRUE, es_index_mapping |-> TRUE, gremlin_client |-> TRUE, graph_mapping |-> TRUE],
    [esclient |-> TRUE, es_index_mapping |-> FALSE, gremlin_client |-> FALSE, graph_mapping |-> TRUE] }

\* --------------------------------------------------------------- normalizer
NormalizeType(t) ==
  CASE t = "TEXT" -> "text"
    [] OTHER -> t

NormalizeFails(schema) ==
  \E f \in DOMAIN schema.fields : schema.fields[f] = MalformedType

normalize_model_schema(schema) ==
  [schema EXCEPT !.fields = [f \in DOMAIN schema.fields |-> NormalizeType(schema.fields[f])]]

\* -------------------------------------------------------------------- state
VARIABLES
  nodeEnv,        \* process.env.NODE_ENV
  properties,     \* this._properties of the model
  ready,          \* this._ready === true
  syncs,          \* number of syncDB calls started
  pc,             \* the pending collaborator call of the running syncDB, or idle/done/thrown
  migration,      \* the local variable migration of _sync_model_definition
  ops,            \* collaborator operations started by the running syncDB, in order
  dbReply,        \* (err, dbSchema) handed to the callback of get_table_schema, None before
  replyErr,       \* err handed to the callback of each builder operation, "none" before
  recreateViews,  \* normalizedDBSchema.materialized_views, the views argument of drop_recreate_table
  tasks,          \* indexingTasks: task name -> "none" | "pending" | "ok" | "failed"
  promise,        \* the promise chain Promise.all(indexingTasks).then().catch()
  created,        \* dependent objects created by the running syncDB
  syncCb,         \* invocations of the callback of _sync_model_definition
  result,         \* the variable result captured by the callbacks of syncDB
  userCb,         \* invocations of the callback handed to syncDB
  nops,           \* number of table-scoped operations called
  tableOp,        \* the table-scoped operation called last
  stmt,           \* a statement builder call: its arguments and what it returned
  instance,       \* a model instance: this._modified and the options of its last save
  ormOptions,     \* this._options and this._keyspace of the Apollo instance
  prov,           \* where each call of Apollo.init stands: stage, pending operations
  provOps,        \* collaborator operations started by Apollo.init, in order
  provReply,      \* the reply of the last introspection handed to Apollo.init, None before
  stageCb,        \* invocations of the stage callbacks of Apollo.init (onKeyspace, ...)
  initCb,         \* invocations of the callback handed to Apollo.init
  models,         \* this._models: model name -> registered model, None when unregistered
  added,          \* the last call of addModel: its arguments and how it ended, None before
  handles         \* the clients held by the Apollo instance and by each registered model

vars == <<nodeEnv, properties, ready, syncs, pc, migration, ops, dbReply, replyErr,
          recreateViews, tasks, promise, created, syncCb, result, userCb, nops, tableOp, stmt,
          instance, ormOptions, prov, provOps, provReply, stageCb, initCb, models, added,
          handles>>

\* the state of the running syncDB, readiness apart
syncVars == <<nodeEnv, properties, syncs, pc, migration, ops, dbReply, replyErr,
              recreateViews, tasks, promise, created, syncCb, result, userCb>>
\* the state of the table-scoped operations and of the statement builders
queryVars == <<nops, tableOp, stmt, instance>>
\* the state of the Apollo instance: provisioning and the model registry
apolloVars == <<ormOptions, prov, provOps, provReply, stageCb, initCb, models, added,
                handles>>

TaskNames == {"create_indexes", "create_custom_indexes", "create_custom_index", "create_mviews"}
TableOps == {"create_table", "init_alter_operations", "drop_recreate_table"}
SinkOps == {"assert_index", "put_mapping", "assert_graph", "put_graph_mapping"}
NoTasks == [t \in TaskNames |-> "none"]
NoReplies == [o \in TableOps \cup SinkOps |-> "none"]
NoPromise == [state |-> "none", err |-> NoErr, handled |-> FALSE]

\* the error a failed collaborator operation reports
ErrorOf(op) == "error:" \o op

Range(s) == {s[i] : i \in DOMAIN s}

\* -------------------------------------------------------- migration policy
\* mutant: production does not override the configured policy
ResolveMigrationNoProductionFloor(props, env) ==
  IF props.migration = None
    THEN IF props.dropTableOnSchemaChange THEN "drop" ELSE "safe"
    ELSE props.migration[1]

\* mutant: the legacy flag wins over an explicit setting
ResolveMigrationFlagFirst(props, env) ==
  IF env = "production" THEN "safe"
  ELSE IF props.dropTableOnSchemaChange THEN "drop"
  ELSE IF props.migration = None THEN "safe"
  ELSE props.migration[1]

ResolveMigration(props, env) ==
  LET configured ==
        IF props.migration = None
          THEN IF props.dropTableOnSchemaChange THEN "drop" ELSE "safe"
          ELSE props.migration[1]
  IN IF env = "production" THEN "safe" ELSE configured

\* ---------------------------------------------------------------- the plan
\* _.isEqual of the two normalized schemas
SchemasEqual(modelSchema, liveSchema) ==
  normalize_model_schema(modelSchema) = normalize_model_schema(liveSchema)

\* mutant: the clustering order is not compared
KeysEqualKeyOnly(modelSchema, liveSchema) ==
  normalize_model_schema(modelSchema).key = normalize_model_schema(liveSchema).key

\* the test that lets the alter routine run
KeysEqual(modelSchema, liveSchema) ==
  /\ normalize_model_schema(modelSchema).key = normalize_model_schema(liveSchema).key
  /\ normalize_model_schema(modelSchema).clustering_order
       = normalize_model_schema(liveSchema).clustering_order

\* mutant: an unrecognized policy is treated as "drop"
PlanUnknownPolicyDrops(props, mig, dbSchema) ==
  IF dbSchema = None
    THEN IF props.createTable = Some(FALSE) THEN "schemanotfound" ELSE "create"
  ELSE IF NormalizeFails(props.schema) \/ NormalizeFails(dbSchema[1]) THEN "throw"
  ELSE IF SchemasEqual(props.schema, dbSchema[1]) THEN "noop"
  ELSE IF mig = "alter"
    THEN IF KeysEqual(props.schema, dbSchema[1]) THEN "alter" ELSE "drop_recreate"
  ELSE IF mig = "safe" THEN "reject"
  ELSE "drop_recreate"

\* mutant: the policy is looked at before the schemas are compared
PlanPolicyBeforeCompare(props, mig, dbSchema) ==
  IF dbSchema = None
    THEN IF props.createTable = Some(FALSE) THEN "schemanotfound" ELSE "create"
  ELSE IF NormalizeFails(props.schema) \/ NormalizeFails(dbSchema[1]) THEN "throw"
  ELSE IF mig = "drop" THEN "drop_recreate"
  ELSE IF SchemasEqual(props.schema, dbSchema[1]) THEN "noop"
  ELSE IF mig = "alter"
    THEN IF KeysEqual(props.schema, dbSchema[1]) THEN "alter" ELSE "drop_recreate"
  ELSE "reject"

\* mutant: createTable is tested for falsiness, so an unset flag rejects too
PlanCreateTableFalsy(props, mig, dbSchema) ==
  IF dbSchema = None
    THEN IF props.createTable \in {None, Some(FALSE)} THEN "schemanotfound" ELSE "create"
  ELSE IF NormalizeFails(props.schema) \/ NormalizeFails(dbSchema[1]) THEN "throw"
  ELSE IF SchemasEqual(props.schema, dbSchema[1]) THEN "noop"
  ELSE IF mig = "alter"
    THEN IF KeysEqual(props.schema, dbSchema[1]) THEN "alter" ELSE "drop_recreate"
  ELSE IF mig = "drop" THEN "drop_recreate"
  ELSE "reject"

\* mutant: createTable false also keeps an existing table from being dropped and recreated
PlanCreateTableGuardsRecreate(props, mig, dbSchema) ==
  IF dbSchema = None
    THEN IF props.createTable = Some(FALSE) THEN "schemanotfound" ELSE "create"
  ELSE IF NormalizeFails(props.schema) \/ NormalizeFails(dbSchema[1]) THEN "throw"
  ELSE IF SchemasEqual(props.schema, dbSchema[1]) THEN "noop"
  ELSE IF props.createTable = Some(FALSE) THEN "reject"
  ELSE IF mig = "alter"
    THEN IF KeysEqual(props.schema, dbSchema[1]) THEN "alter" ELSE "drop_recreate"
  ELSE IF mig = "drop" THEN "drop_recreate"
  ELSE "reject"

\* the branch the callback of get_table_schema takes for a reported dbSchema
Plan(props, mig, dbSchema) ==
  IF dbSchema = None
    THEN IF props.createTable = Some(FALSE) THEN "schemanotfound" ELSE "create"
  ELSE IF NormalizeFails(props.schema) \/ NormalizeFails(dbSchema[1]) THEN "throw"
  ELSE IF SchemasEqual(props.schema, dbSchema[1]) THEN "noop"
  ELSE IF mig = "alter"
    THEN IF KeysEqual(props.schema, dbSchema[1]) THEN "alter" ELSE "drop_recreate"
  ELSE IF mig = "drop" THEN "drop_recreate"
  ELSE "reject"

\* mutant: every alter error falls back to drop and recreate
AlterOutcomeAnyError(err1) ==
  IF err1 # NoErr THEN "drop_recreate" ELSE "callback"

\* what the callback of init_alter_operations does with err1
AlterOutcome(err1) ==
  IF err1 # NoErr /\ err1 = "alter_impossible" THEN "drop_recreate" ELSE "callback"

\* mutant: afterDBCreate does not look at err1
AfterDBCreateProceedsAlways(err1) == TRUE

\* afterDBCreate goes on to the dependent objects only without err1
AfterDBCreateProceeds(err1) == err1 = NoErr

\* mutant: the single custom_index is forgotten
IndexingTasksNoCustomIndex(schema) ==
  (IF schema.indexes # None THEN <<"create_indexes">> ELSE <<>>)
  \o (IF schema.custom_indexes # None THEN <<"create_custom_indexes">> ELSE <<>>)
  \o (IF schema.materialized_views # None THEN <<"create_mviews">> ELSE <<>>)

\* mutant: the views of the declared schema are handed to drop_recreate_table
DropRecreateViewsDeclared(modelSchema, dbSchema) ==
  normalize_model_schema(modelSchema).materialized_views

\* the views argument of every call of tableBuilder.drop_recreate_table:
\* normalizedDBSchema.materialized_views, the views of the live table
DropRecreateViews(modelSchema, dbSchema) ==
  normalize_model_schema(dbSchema).materialized_views

\* tableBuilder.drop_recreate_table(modelSchema, views, callback), when it succeeds: the
\* dependent views handed to it, which the drop of the table invalidates, are created again
\* on the new table; the result is the set of views it has recreated
drop_recreate_table(views) == IF views = None THEN {} ELSE views[1]

\* indexingTasks, in the order they are pushed
IndexingTasks(schema) ==
  (IF schema.indexes # None THEN <<"create_indexes">> ELSE <<>>)
  \o (IF schema.custom_indexes # None THEN <<"create_custom_indexes">> ELSE <<>>)
  \o (IF schema.custom_index # None THEN <<"create_custom_index">> ELSE <<>>)
  \o (IF schema.materialized_views # None THEN <<"create_mviews">> ELSE <<>>)

\* mutant: the promise waits for every task before it rejects
PromiseAllSettled(p, ts, t, ok) ==
  IF p.state # "pending" THEN p
  ELSE IF \E u \in TaskNames : ts[u] = "pending" THEN p
  ELSE IF \E u \in TaskNames : ts[u] = "failed"
    THEN [p EXCEPT !.state = "rejected",
                   !.err = ErrorOf(CHOOSE u \in TaskNames : ts[u] = "failed")]
  ELSE [p EXCEPT !.state = "fulfilled"]

\* Promise.all over the tasks after task t settled: rejected by the first
\* rejection, fulfilled once every task is fulfilled
PromiseAll(p, ts, t, ok) ==
  IF p.state # "pending" THEN p
  ELSE IF ~ok THEN [p EXCEPT !.state = "rejected", !.err = ErrorOf(t)]
  ELSE IF \A u \in TaskNames : ts[u] \in {"none", "ok"} THEN [p EXCEPT !.state = "fulfilled"]
  ELSE p

\* ------------------------------------------------- the callbacks of syncDB
CallUser(err, res) ==
  /\ userCb' = Append(userCb, [err |-> err, result |-> res])
  /\ pc' = "done"

\* mutant: the model is marked ready before the graph sync has replied
sync_graphReadyEarly(res) ==
  IF properties.gremlin_client /\ properties.schema_graph_mapping
    THEN /\ ops' = Append(ops, "assert_graph")
         /\ pc' = "assert_graph"
         /\ ready' = TRUE
         /\ UNCHANGED userCb
    ELSE /\ ready' = TRUE
         /\ CallUser(NoErr, res)
         /\ ops' = ops

\* _sync_graph, called with the last callback of syncDB
sync_graph(res) ==
  IF properties.gremlin_client /\ properties.schema_graph_mapping
    THEN /\ ops' = Append(ops, "assert_graph")
         /\ pc' = "assert_graph"
         /\ UNCHANGED <<ready, userCb>>
    ELSE /\ ready' = TRUE
         /\ CallUser(NoErr, res)
         /\ ops' = ops

\* mutant: the search index is synchronised whenever the model has a search client
sync_es_indexAnyClient(res) ==
  IF properties.esclient
    THEN /\ ops' = Append(ops, "assert_index")
         /\ pc' = "assert_index"
         /\ UNCHANGED <<ready, userCb>>
    ELSE sync_graph(res)

\* _sync_es_index, called with the second callback of syncDB
sync_es_index(res) ==
  IF properties.esclient /\ properties.schema_es_index_mapping
    THEN /\ ops' = Append(ops, "assert_index")
         /\ pc' = "assert_index"
         /\ UNCHANGED <<ready, userCb>>
    ELSE sync_graph(res)

\* the callback syncDB hands to _sync_model_definition
SyncCallback(err, res) ==
  /\ syncCb' = Append(syncCb, [err |-> err, result |-> res])
  /\ result' = res
  /\ IF err # NoErr
       THEN CallUser(err, Undefined) /\ UNCHANGED <<ready, ops>>
       ELSE sync_es_index(res)

\* new Model(instanceValues): this._modified = {}; no save called yet
NewInstance == [modified |-> {}, if_not_exist |-> FALSE, applied |-> FALSE]

\* no table-scoped operation called yet, no statement builder called yet
NoOp ==
  [kind |-> "none", before |-> "undeclared", after |-> "uncalled", cbGiven |-> TRUE,
   phase |-> "none", buildFailed |-> FALSE, built |-> FALSE, init |-> FALSE, passed |-> FALSE,
   readyAtPass |-> FALSE, statements |-> 0, reply |-> "none", afterCalled |-> FALSE,
   outcome |-> <<>>]
NoStmt == [fn |-> "none"]

\* ------------------------------------------------------- the Apollo instance
\* replication_factor of the replication strategy the constructor defaults to
DEFAULT_REPLICATION_FACTOR == 1

\* options.defaultReplicationStrategy as the constructor sets it
DefaultReplicationStrategy ==
  [class |-> "SimpleStrategy",
   replication_factor |-> [type |-> "number", value |-> DEFAULT_REPLICATION_FACTOR]]

\* model names a registration may succeed under
ModelNames == {"users", "9lives"}

\* Apollo.init not called yet
NoProv == [stage |-> "idle", items |-> <<>>, settled |-> FALSE, queue |-> "none", err |-> NoErr]

\* this._models = {}
NoModels == [n \in ModelNames |-> None]

\* a handle is a client object, told from every other by the order of its creation, or no
\* object at all
Object(kind, id) == [kind |-> kind, id |-> id]
Null == Object("null", 0)
NotAssigned == Object("undefined", 0)

\* the constructor: this._client = null, this._esclient = null, this._gremlin_client = null;
\* this._define_connection is not assigned; no model holds anything yet
\* made counts the client objects created so far, direct the direct calls of
\* create_es_client and create_gremlin_client
NoHandles ==
  [registry |-> [client |-> Null, define_connection |-> NotAssigned,
                 esclient |-> Null, gremlin_client |-> Null],
   model |-> [n \in ModelNames |-> None],
   made |-> 0, direct |-> 0]

\* the Apollo instance after construction, without keyspace and without declarations
ApolloIdle ==
  /\ ormOptions = [keyspace |-> FALSE, createKeyspace |-> None,
                   defaultReplicationStrategy |-> DefaultReplicationStrategy,
                   udts |-> None, udfs |-> None, udas |-> None,
                   manageESIndex |-> FALSE, manageGraphs |-> FALSE]
  /\ prov = <<NoProv>>
  /\ provOps = <<>>
  /\ provReply = None
  /\ stageCb = <<>>
  /\ initCb = <<>>
  /\ models = NoModels
  /\ added = None
  /\ handles = NoHandles

\* --------------------------------------------------------------------- Init
Init ==
  /\ nodeEnv \in Environments
  /\ \E m \in MigrationSettings, d \in BOOLEAN, c \in CreateTableSettings,
        s \in DeclaredSchemas, k \in SinkConfigs :
       properties = [migration |-> m, dropTableOnSchemaChange |-> d, createTable |-> c,
                     schema |-> s,
                     esclient |-> k.esclient, schema_es_index_mapping |-> k.es_index_mapping,
                     gremlin_client |-> k.gremlin_client, schema_graph_mapping |-> k.graph_mapping]
  /\ ready = FALSE
  /\ syncs = 0
  /\ pc = "idle"
  /\ migration = Undefined
  /\ ops = <<>>
  /\ dbReply = None
  /\ replyErr = NoReplies
  /\ recreateViews = None
  /\ tasks = NoTasks
  /\ promise = NoPromise
  /\ created = {}
  /\ syncCb = <<>>
  /\ result = Undefined
  /\ userCb = <<>>
  /\ nops = 0
  /\ tableOp = NoOp
  /\ instance = NewInstance
  /\ stmt = NoStmt
  /\ ApolloIdle

\* ------------------------------------------------------------------ actions
\* no syncDB is running and no indexing task is left in flight
Quiescent ==
  /\ pc \in {"idle", "done"}
  /\ \A t \in TaskNames : tasks[t] # "pending"

\* syncDB(callback): _sync_model_definition resolves the policy and asks for the
\* live schema
SyncDB ==
  /\ Quiescent
  /\ syncs < MaxSyncs
  /\ syncs' = syncs + 1
  /\ migration' = ResolveMigration(properties, nodeEnv)
  /\ ops' = <<"get_table_schema">>
  /\ pc' = "get_table_schema"
  /\ dbReply' = None
  /\ replyErr' = NoReplies
  /\ recreateViews' = None
  /\ tasks' = NoTasks
  /\ promise' = NoPromise
  /\ created' = {}
  /\ syncCb' = <<>>
  /\ result' = Undefined
  /\ userCb' = <<>>
  /\ UNCHANGED <<nodeEnv, properties, ready>>
  /\ UNCHANGED <<queryVars, apolloVars>>

\* the callback of get_table_schema
GetTableSchemaCallback ==
  /\ pc = "get_table_schema"
  /\ \E err \in {NoErr, ErrorOf("get_table_schema")},
        dbSchema \in {None} \cup {Some(l) : l \in LiveSchemas} :
       /\ err # NoErr => dbSchema = None
       /\ dbReply' = Some([err |-> err, dbSchema |-> dbSchema])
       /\ IF err # NoErr
            THEN SyncCallback(err, Undefined) /\ UNCHANGED recreateViews
            ELSE LET plan == Plan(properties, migration, dbSchema) IN
                 CASE plan = "schemanotfound" ->
                        SyncCallback("schemanotfound", Undefined) /\ UNCHANGED recreateViews
                   [] plan = "create" ->
                        /\ ops' = Append(ops, "create_table")
                        /\ pc' = "create_table"
                        /\ UNCHANGED <<ready, syncCb, result, userCb, recreateViews>>
                   [] plan = "throw" ->
                        /\ pc' = "thrown"
                        /\ UNCHANGED <<ops, ready, syncCb, result, userCb, recreateViews>>
                   [] plan = "noop" ->
                        SyncCallback(NoErr, "false") /\ UNCHANGED recreateViews
                   [] plan = "alter" ->
                        /\ ops' = Append(ops, "init_alter_operations")
                        /\ pc' = "init_alter_operations"
                        /\ recreateViews' = DropRecreateViews(properties.schema, dbSchema[1])
                        /\ UNCHANGED <<ready, syncCb, result, userCb>>
                   [] plan = "drop_recreate" ->
                        /\ ops' = Append(ops, "drop_recreate_table")
                        /\ pc' = "drop_recreate_table"
                        /\ recreateViews' = DropRecreateViews(properties.schema, dbSchema[1])
                        /\ UNCHANGED <<ready, syncCb, result, userCb>>
                   [] OTHER ->
                        SyncCallback("schemamismatch", Undefined) /\ UNCHANGED recreateViews
  /\ UNCHANGED <<nodeEnv, properties, syncs, migration, replyErr, tasks, promise, created>>
  /\ UNCHANGED <<queryVars, apolloVars>>

\* the callback of init_alter_operations
InitAlterCallback ==
  /\ pc = "init_alter_operations"
  /\ \E err1 \in {NoErr, "alter_impossible", ErrorOf("init_alter_operations")} :
       /\ replyErr' = [replyErr EXCEPT !["init_alter_operations"] = err1]
       /\ IF AlterOutcome(err1) = "drop_recreate"
            THEN /\ ops' = Append(ops, "drop_recreate_table")
                 /\ pc' = "drop_recreate_table"
                 /\ UNCHANGED <<ready, syncCb, result, userCb>>
            ELSE SyncCallback(err1, Undefined)
  /\ UNCHANGED <<nodeEnv, properties, syncs, migration, dbReply, recreateViews, tasks,
                 promise, created>>
  /\ UNCHANGED <<queryVars, apolloVars>>

\* afterDBCreate, the callback of create_table and of drop_recreate_table
AfterDBCreate ==
  /\ pc \in {"create_table", "drop_recreate_table"}
  /\ \E err1 \in {NoErr, ErrorOf(pc)} :
       /\ replyErr' = [replyErr EXCEPT ![pc] = err1]
       /\ IF ~AfterDBCreateProceeds(err1)
            THEN SyncCallback(err1, Undefined) /\ UNCHANGED <<tasks, promise>>
            ELSE LET indexingTasks == IndexingTasks(properties.schema) IN
                 /\ ops' = ops \o indexingTasks
                 /\ tasks' = [t \in TaskNames |->
                                IF t \in Range(indexingTasks) THEN "pending" ELSE "none"]
                 /\ promise' = [state |-> IF indexingTasks = <<>> THEN "fulfilled" ELSE "pending",
                                err |-> NoErr, handled |-> FALSE]
                 /\ pc' = "indexing"
                 /\ UNCHANGED <<ready, syncCb, result, userCb>>
  /\ UNCHANGED <<nodeEnv, properties, syncs, migration, dbReply, recreateViews, created>>
  /\ UNCHANGED <<queryVars, apolloVars>>

\* one of the indexing tasks replies; the success that fulfils Promise.all runs the then
\* handler, callback(null, true), inside the reply; a rejection only queues the catch handler
TaskSettle ==
  /\ \E t \in TaskNames, ok \in BOOLEAN :
       /\ tasks[t] = "pending"
       /\ tasks' = [tasks EXCEPT ![t] = IF ok THEN "ok" ELSE "failed"]
       /\ created' = IF ok THEN created \cup {t} ELSE created
       /\ LET p == PromiseAll(promise, tasks', t, ok) IN
          IF promise.state = "pending" /\ p.state = "fulfilled"
            THEN /\ promise' = [p EXCEPT !.handled = TRUE]
                 /\ SyncCallback(NoErr, "true")
            ELSE /\ promise' = p
                 /\ UNCHANGED <<ready, pc, ops, syncCb, result, userCb>>
  /\ UNCHANGED <<nodeEnv, properties, syncs, migration, dbReply, replyErr, recreateViews>>
  /\ UNCHANGED <<queryVars, apolloVars>>

\* .then(function () { callback(null, true) }) of Promise.all([]): no task was started
PromiseThen ==
  /\ promise.state = "fulfilled" /\ ~promise.handled
  /\ promise' = [promise EXCEPT !.handled = TRUE]
  /\ SyncCallback(NoErr, "true")
  /\ UNCHANGED <<nodeEnv, properties, syncs, migration, dbReply, replyErr, recreateViews,
                 tasks, created>>
  /\ UNCHANGED <<queryVars, apolloVars>>

\* .catch(function (err2) { callback(err2) })
PromiseCatch ==
  /\ promise.state = "rejected" /\ ~promise.handled
  /\ promise' = [promise EXCEPT !.handled = TRUE]
  /\ SyncCallback(promise.err, Undefined)
  /\ UNCHANGED <<nodeEnv, properties, syncs, migration, dbReply, replyErr, recreateViews,
                 tasks, created>>
  /\ UNCHANGED <<queryVars, apolloVars>>

\* the callback of assert_index in _sync_es_index
AssertIndexCallback ==
  /\ pc = "assert_index"
  /\ \E err \in {NoErr, ErrorOf("assert_index")} :
       /\ replyErr' = [replyErr EXCEPT !["assert_index"] = err]
       /\ IF err # NoErr
            THEN CallUser(err, Undefined) /\ UNCHANGED ops
            ELSE /\ ops' = Append(ops, "put_mapping")
                 /\ pc' = "put_mapping"
                 /\ UNCHANGED userCb
  /\ UNCHANGED <<nodeEnv, properties, ready, syncs, migration, dbReply, recreateViews, tasks,
                 promise, created, syncCb, result>>
  /\ UNCHANGED <<queryVars, apolloVars>>

\* the callback of put_mapping: the callback syncDB hands to _sync_es_index
PutMappingCallback ==
  /\ pc = "put_mapping"
  /\ \E err1 \in {NoErr, ErrorOf("put_mapping")} :
       /\ replyErr' = [replyErr EXCEPT !["put_mapping"] = err1]
       /\ IF err1 # NoErr
            THEN CallUser(err1, Undefined) /\ UNCHANGED <<ready, ops>>
            ELSE sync_graph(result)
  /\ UNCHANGED <<nodeEnv, properties, syncs, migration, dbReply, recreateViews, tasks,
                 promise, created, syncCb, result>>
  /\ UNCHANGED <<queryVars, apolloVars>>

\* the callback of assert_graph in _sync_graph
AssertGraphCallback ==
  /\ pc = "assert_graph"
  /\ \E err \in {NoErr, ErrorOf("assert_graph")} :
       /\ replyErr' = [replyErr EXCEPT !["assert_graph"] = err]
       /\ IF err # NoErr
            THEN CallUser(err, Undefined) /\ UNCHANGED ops
            ELSE /\ ops' = Append(ops, "put_graph_mapping")
                 /\ pc' = "put_graph_mapping"
                 /\ UNCHANGED userCb
  /\ UNCHANGED <<nodeEnv, properties, ready, syncs, migration, dbReply, recreateViews, tasks,
                 promise, created, syncCb, result>>
  /\ UNCHANGED <<queryVars, apolloVars>>

\* the callback of the graph put_mapping: the callback syncDB hands to _sync_graph
PutGraphMappingCallback ==
  /\ pc = "put_graph_mapping"
  /\ \E err2 \in {NoErr, ErrorOf("put_graph_mapping")} :
       /\ replyErr' = [replyErr EXCEPT !["put_graph_mapping"] = err2]
       /\ IF err2 # NoErr
            THEN CallUser(err2, Undefined) /\ UNCHANGED ready
            ELSE ready' = TRUE /\ CallUser(NoErr, result)
  /\ UNCHANGED <<nodeEnv, properties, syncs, migration, ops, dbReply, recreateViews, tasks,
                 promise, created, syncCb, result>>
  /\ UNCHANGED <<queryVars, apolloVars>>

Next ==
  \/ SyncDB
  \/ GetTableSchemaCallback
  \/ InitAlterCallback
  \/ AfterDBCreate
  \/ TaskSettle
  \/ PromiseThen
  \/ PromiseCatch
  \/ AssertIndexCallback
  \/ PutMappingCallback
  \/ AssertGraphCallback
  \/ PutGraphMappingCallback

Spec == Init /\ [][Next]_vars

\* ------------------------------------------------ table-scoped operations
\* operations with a before and an after hook, and those without
Mutations == {"update", "delete", "save"}
Unhooked == {"find", "findOne", "truncate", "stream", "eachRow"}

\* what a hook function returns: true, false, or nothing (a falsy value other
\* than false); "undeclared": the schema has no such function
HookReturns == {"true", "false", "undefined"}
Hooks == {"undeclared"} \cup HookReturns

\* mutant: any falsy return value is a veto
HookVetoesFalsy(h) == h \in {"false", "undefined", "null", "0"}

\* typeof schema.hook === 'function' && schema.hook(...) === false
HookVetoes(h) == h = "false"

\* mutant: init reports without marking the model ready
initNotReady(rdy) == [ready |-> rdy, err |-> NoErr]

\* mutant: init withdraws readiness while it works
initResets(rdy) == [ready |-> FALSE, err |-> NoErr]

\* BaseModel.init: this._ready = true; callback()
init(rdy) == [ready |-> TRUE, err |-> NoErr]

\* mutant: the statement is executed whatever the readiness
ExecuteTableUngated(rdy) == [init |-> FALSE, ready |-> rdy, err |-> NoErr, execute |-> TRUE]

\* the gate of _execute_table_query, _execute_table_eachRow and
\* _execute_table_stream on a model whose readiness is rdy: whether init is
\* run, the readiness afterwards, the error of init, whether the statement is
\* handed to the driver
ExecuteTable(rdy) ==
  IF rdy
    THEN [init |-> FALSE, ready |-> rdy, err |-> NoErr, execute |-> TRUE]
    ELSE LET i == init(rdy) IN
         [init |-> TRUE, ready |-> i.ready, err |-> i.err, execute |-> i.err = NoErr]

\* the callback-or-throw of the reply handlers
Deliver(cbGiven, err) == [how |-> IF cbGiven THEN "callback" ELSE "throw", err |-> err]

OpError(kind, what) == "model." \o kind \o "." \o what

\* the error of a query object or of update values that the parser rejects
ValidationError == ErrorOf("parser")

\* the callback the statement builder hands to parser.callback_or_throw:
\* stream and eachRow call find with return_query and without a callback
BuilderCallback(kind, cbGiven) == IF kind \in {"stream", "eachRow"} THEN FALSE ELSE cbGiven

\* parser.callback_or_throw(err, callback): the callback gets the error when
\* there is one, else the error is thrown
callback_or_throw(err, cbGiven) == [how |-> IF cbGiven THEN "callback" ELSE "throw", err |-> err]

\* mutant: a predicate the parser rejects is dropped and the rest is executed
StartOperationDropsPredicate(kind, before, invalid, cbGiven) ==
  IF kind \in Mutations /\ HookVetoes(before)
    THEN /\ tableOp' = [kind |-> kind, before |-> before, after |-> "uncalled", cbGiven |-> cbGiven,
                        phase |-> "done", buildFailed |-> FALSE, built |-> FALSE, init |-> FALSE,
                        passed |-> FALSE, readyAtPass |-> FALSE, statements |-> 0,
                        reply |-> "none", afterCalled |-> FALSE,
                        outcome |-> <<callback_or_throw(OpError(kind, "before.error"), cbGiven)>>]
         /\ ready' = ready
    ELSE LET g == ExecuteTable(ready) IN
         /\ tableOp' = [kind |-> kind, before |-> before, after |-> "uncalled", cbGiven |-> cbGiven,
                        phase |-> IF g.execute THEN "executing" ELSE "done",
                        buildFailed |-> invalid, built |-> TRUE, init |-> g.init,
                        passed |-> g.execute, readyAtPass |-> g.execute /\ g.ready,
                        statements |-> IF g.execute THEN 1 ELSE 0,
                        reply |-> "none", afterCalled |-> FALSE,
                        outcome |-> IF g.execute THEN <<>> ELSE <<Deliver(TRUE, g.err)>>]
         /\ ready' = g.ready

\* the synchronous part of an operation: before hook, statement, gate; the
\* after hook is not called before the driver replied
StartOperation(kind, before, invalid, cbGiven) ==
  IF kind \in Mutations /\ HookVetoes(before)
    THEN /\ tableOp' = [kind |-> kind, before |-> before, after |-> "uncalled", cbGiven |-> cbGiven,
                        phase |-> "done", buildFailed |-> FALSE, built |-> FALSE, init |-> FALSE,
                        passed |-> FALSE, readyAtPass |-> FALSE, statements |-> 0,
                        reply |-> "none", afterCalled |-> FALSE,
                        outcome |-> <<callback_or_throw(OpError(kind, "before.error"), cbGiven)>>]
         /\ ready' = ready
    ELSE IF invalid
    THEN /\ tableOp' = [kind |-> kind, before |-> before, after |-> "uncalled", cbGiven |-> cbGiven,
                        phase |-> "done", buildFailed |-> TRUE, built |-> FALSE, init |-> FALSE,
                        passed |-> FALSE, readyAtPass |-> FALSE, statements |-> 0,
                        reply |-> "none", afterCalled |-> FALSE,
                        outcome |-> <<callback_or_throw(ValidationError, BuilderCallback(kind, cbGiven))>>]
         /\ ready' = ready
    ELSE LET g == ExecuteTable(ready) IN
         /\ tableOp' = [kind |-> kind, before |-> before, after |-> "uncalled", cbGiven |-> cbGiven,
                        phase |-> IF g.execute THEN "executing" ELSE "done",
                        buildFailed |-> FALSE, built |-> TRUE, init |-> g.init,
                        passed |-> g.execute, readyAtPass |-> g.execute /\ g.ready,
                        statements |-> IF g.execute THEN 1 ELSE 0,
                        reply |-> "none", afterCalled |-> FALSE,
                        outcome |-> IF g.execute THEN <<>> ELSE <<Deliver(TRUE, g.err)>>]
         /\ ready' = g.ready

\* an operation may be called: the bound is not reached and the last one has
\* got its reply
MayCall == nops < MaxOps /\ tableOp.phase # "executing"

Find ==
  /\ MayCall
  /\ nops' = nops + 1
  /\ \E invalid \in BOOLEAN : StartOperation("find", "undeclared", invalid, TRUE)
  /\ UNCHANGED <<apolloVars, syncVars, stmt, instance>>

\* findOne: find with $limit = 1 and a callback that hands on error or row
FindOne ==
  /\ MayCall
  /\ nops' = nops + 1
  /\ \E invalid \in BOOLEAN : StartOperation("findOne", "undeclared", invalid, TRUE)
  /\ UNCHANGED <<apolloVars, syncVars, stmt, instance>>

Update ==
  /\ MayCall
  /\ nops' = nops + 1
  /\ \E before \in Hooks, invalid \in BOOLEAN, cbGiven \in BOOLEAN :
       StartOperation("update", before, invalid, cbGiven)
  /\ UNCHANGED <<apolloVars, syncVars, stmt, instance>>

Delete ==
  /\ MayCall
  /\ nops' = nops + 1
  /\ \E before \in Hooks, invalid \in BOOLEAN, cbGiven \in BOOLEAN :
       StartOperation("delete", before, invalid, cbGiven)
  /\ UNCHANGED <<apolloVars, syncVars, stmt, instance>>

Save ==
  /\ MayCall
  /\ nops' = nops + 1
  /\ \E before \in Hooks, invalid \in BOOLEAN, cbGiven \in BOOLEAN :
       StartOperation("save", before, invalid, cbGiven)
  /\ UNCHANGED <<apolloVars, syncVars, stmt, instance>>

Truncate ==
  /\ MayCall
  /\ nops' = nops + 1
  /\ StartOperation("truncate", "undeclared", FALSE, TRUE)
  /\ UNCHANGED <<apolloVars, syncVars, stmt, instance>>

Stream ==
  /\ MayCall
  /\ nops' = nops + 1
  /\ \E invalid \in BOOLEAN : StartOperation("stream", "undeclared", invalid, TRUE)
  /\ UNCHANGED <<apolloVars, syncVars, stmt, instance>>

EachRow ==
  /\ MayCall
  /\ nops' = nops + 1
  /\ \E invalid \in BOOLEAN : StartOperation("eachRow", "undeclared", invalid, TRUE)
  /\ UNCHANGED <<apolloVars, syncVars, stmt, instance>>

\* Model.init(callback), called by the application
InitCall ==
  /\ ready' = init(ready).ready
  /\ UNCHANGED <<apolloVars, syncVars, queryVars>>

\* mutant: the after hook is called whatever the driver replied
AfterHookRunsAlways(o, err) == o.kind \in Mutations

\* the reply handler of operation o reaches the test of the after hook
AfterHookRuns(o, err) == o.kind \in Mutations /\ err = NoErr

\* mutant: stream and eachRow hand the error of the driver on as it is
ReplyOutcomeRawStream(o, err, after) ==
  IF o.kind \in Mutations
    THEN IF err # NoErr THEN <<Deliver(o.cbGiven, OpError(o.kind, "dberror"))>>
         ELSE IF HookVetoes(after) THEN <<Deliver(o.cbGiven, OpError(o.kind, "after.error"))>>
         ELSE IF o.cbGiven THEN <<Deliver(TRUE, NoErr)>>
         ELSE <<>>
    ELSE IF o.kind \in {"truncate", "stream", "eachRow"} THEN <<Deliver(TRUE, err)>>
    ELSE IF err # NoErr THEN <<Deliver(TRUE, OpError("find", "dberror"))>>
    ELSE <<Deliver(TRUE, NoErr)>>

\* what the reply handler of operation o delivers for the driver's err, the
\* after hook returning after
ReplyOutcome(o, err, after) ==
  IF o.kind \in Mutations
    THEN IF err # NoErr THEN <<Deliver(o.cbGiven, OpError(o.kind, "dberror"))>>
         ELSE IF HookVetoes(after) THEN <<Deliver(o.cbGiven, OpError(o.kind, "after.error"))>>
         ELSE IF o.cbGiven THEN <<Deliver(TRUE, NoErr)>>
         ELSE <<>>
    ELSE IF o.kind = "truncate" THEN <<Deliver(TRUE, err)>>
    ELSE IF err # NoErr THEN <<Deliver(TRUE, OpError("find", "dberror"))>>
    ELSE <<Deliver(TRUE, NoErr)>>

\* the driver replies to the statement of the operation; the after hook, when
\* the handler reaches it, returns after
ExecuteQueryCallback ==
  /\ tableOp.phase = "executing"
  /\ \E err \in {NoErr, ErrorOf("execute_query")}, after \in Hooks :
       LET runs == AfterHookRuns(tableOp, err) IN
       /\ ~runs => after = "undeclared"
       /\ tableOp' = [tableOp EXCEPT
                        !.phase = "done",
                        !.reply = err,
                        !.after = IF runs THEN after ELSE "uncalled",
                        !.afterCalled = runs /\ after # "undeclared",
                        !.outcome = ReplyOutcome(tableOp, err, IF runs THEN after ELSE "undeclared")]
  /\ UNCHANGED <<apolloVars, syncVars, ready, nops, stmt, instance>>

\* the model handle of the operations: a declared schema, with an index and a view
\* or without, both sinks, alter migration, outside production
OperationSchema == MkSchema("text", KeyAsc, Some(<<"name">>), None, None, Some({"view1"}))

\* the same table declared without index and view: afterDBCreate has no task to start
PlainSchema == MkSchema("text", KeyAsc, None, None, None, None)

InitOps ==
  /\ Init
  /\ nodeEnv = "development"
  /\ properties.migration = Some("alter")
  /\ ~properties.dropTableOnSchemaChange
  /\ properties.createTable = None
  /\ properties.schema \in {OperationSchema, PlainSchema}
  /\ properties.schema_es_index_mapping /\ properties.gremlin_client

NextOps ==
  \/ Next
  \/ InitCall
  \/ Find
  \/ FindOne
  \/ Update
  \/ Delete
  \/ Save
  \/ Truncate
  \/ Stream
  \/ EachRow
  \/ ExecuteQueryCallback

SpecOps == InitOps /\ [][NextOps]_vars

\* ------------------------------------------------ instances: modified fields
\* the fields of an instance that the application assigns
InstanceFields == {"name", "ts"}

\* mutant: a successful save clears the modified fields without a callback too
SaveModifiedAnyCaller(modified, cbGiven, err, ifNotExist, applied) ==
  IF err = NoErr /\ (~ifNotExist \/ applied) THEN {} ELSE modified

\* this._modified after the reply handler of save: the handler clears it only in
\* its branch typeof callback === 'function', after the test of err, when the
\* insert was not conditional or result.rows[0]['[applied]'] is set
SaveModified(modified, cbGiven, err, ifNotExist, applied) ==
  IF cbGiven /\ err = NoErr /\ (~ifNotExist \/ applied) THEN {} ELSE modified

\* defaultSetter: instance[propName] = newValue marks the field modified when
\* the value differs
SetField ==
  /\ \E propName \in InstanceFields, differs \in BOOLEAN :
       instance' = [instance EXCEPT
                      !.modified = IF differs THEN @ \cup {propName} ELSE @]
  /\ UNCHANGED <<apolloVars, syncVars, ready, nops, tableOp, stmt>>

\* instance.save(options, callback): before_save, the insert statement, the gate
SaveInstance ==
  /\ MayCall
  /\ nops' = nops + 1
  /\ \E before \in Hooks, invalid \in BOOLEAN, cbGiven \in BOOLEAN, ifNotExist \in BOOLEAN :
       /\ StartOperation("save", before, invalid, cbGiven)
       /\ instance' = [instance EXCEPT !.if_not_exist = ifNotExist, !.applied = FALSE]
  /\ UNCHANGED <<apolloVars, syncVars, stmt>>

\* the driver replies to the insert of save: (err, result), result.rows[0]['[applied]']
\* being set or not for a conditional insert
SaveCallback ==
  /\ tableOp.phase = "executing" /\ tableOp.kind = "save"
  /\ \E err \in {NoErr, ErrorOf("execute_query")}, applied \in BOOLEAN, after \in Hooks :
       LET runs == AfterHookRuns(tableOp, err) IN
       /\ ~runs => after = "undeclared"
       /\ (err # NoErr \/ ~instance.if_not_exist) => ~applied
       /\ tableOp' = [tableOp EXCEPT
                        !.phase = "done",
                        !.reply = err,
                        !.after = IF runs THEN after ELSE "uncalled",
                        !.afterCalled = runs /\ after # "undeclared",
                        !.outcome = ReplyOutcome(tableOp, err, IF runs THEN after ELSE "undeclared")]
       /\ instance' = [instance EXCEPT
                         !.applied = applied,
                         !.modified = SaveModified(@, tableOp.cbGiven, err,
                                                   instance.if_not_exist, applied)]
  /\ UNCHANGED <<apolloVars, syncVars, ready, nops, stmt>>

NextSave ==
  \/ SetField
  \/ SaveInstance
  \/ SaveCallback

SpecSave == InitOps /\ [][NextSave]_vars

\* ------------------------------------------------------ statement builders
\* Array.prototype.join
RECURSIVE Join(_, _)
Join(xs, sep) ==
  IF xs = <<>> THEN ""
  ELSE IF Len(xs) = 1 THEN xs[1]
  ELSE xs[1] \o sep \o Join(Tail(xs), sep)

\* a query object: its predicates column = value, in the order of its keys
QueryObjects ==
  { <<>>,
    << [col |-> "id", val |-> 5] >>,
    << [col |-> "id", val |-> 5], [col |-> "ts", val |-> 7] >>,
    << [col |-> "ts", val |-> 7], [col |-> "id", val |-> 5] >> }

\* parser.get_where_clause: the relations joined by AND behind WHERE, their
\* values in the same order; nothing for an empty query object
get_where_clause(queryObject) ==
  [query |-> IF queryObject = <<>> THEN ""
             ELSE "WHERE " \o Join([i \in DOMAIN queryObject |->
                                      "\"" \o queryObject[i].col \o "\" = ?"], " AND "),
   params |-> [i \in DOMAIN queryObject |-> queryObject[i].val]]

\* what the other clause builders of the parser return
OrderbyClauses == {"", "ORDER BY \"ts\" DESC"}
GroupbyClauses == {"", "GROUP BY \"id\""}
LimitClauses == {"", "LIMIT 10"}
SelectClauses == {"*"}
UpdateExpressions ==
  { [updateClauses |-> << "\"name\"=?" >>, queryParams |-> <<11>>],
    [updateClauses |-> << "\"name\"=?", "\"age\"=?" >>, queryParams |-> <<11, 12>>] }
SaveExpressions ==
  { [identifiers |-> << "\"id\"" >>, values |-> << "?" >>, queryParams |-> <<5>>],
    [identifiers |-> << "\"id\"", "\"name\"" >>, values |-> << "?", "?" >>,
     queryParams |-> <<5, 11>>] }
\* options.conditions: unset, or what parser.get_if_clause returns for it
Conditions ==
  { None,
    Some([query |-> "", params |-> <<>>]),
    Some([query |-> "IF \"name\" = ?", params |-> <<21>>]) }

\* options.ttl: unset, a number (0 included) or a string
TtlOptions ==
  { None,
    Some([type |-> "number", value |-> 300]),
    Some([type |-> "number", value |-> 0]),
    Some([type |-> "string", value |-> 300]) }

\* _.isNumber(options.ttl)
isNumber(ttl) == ttl # None /\ ttl[1].type = "number"

TableNames == {"events", "users"}

\* mutant: LIMIT is emitted before ORDER BY
get_find_queryLimitFirst(a) ==
  LET whereClause == get_where_clause(a.queryObject)
      q0 == "SELECT " \o (IF a.distinct THEN "DISTINCT " ELSE "") \o a.select \o " FROM \""
              \o (IF a.materialized_view # None THEN a.materialized_view[1] ELSE a.table_name)
              \o "\""
      q1 == IF whereClause.query # "" THEN q0 \o " " \o whereClause.query ELSE q0
      q2 == IF a.limit # "" THEN q1 \o " " \o a.limit ELSE q1
      q3 == IF a.orderby # "" THEN q2 \o " " \o a.orderby ELSE q2
      q4 == IF a.groupby # "" THEN q3 \o " " \o a.groupby ELSE q3
      q5 == IF a.allow_filtering THEN q4 \o " ALLOW FILTERING" ELSE q4
  IN [query |-> q5 \o ";", params |-> whereClause.params]

\* BaseModel.get_find_query
get_find_query(a) ==
  LET whereClause == get_where_clause(a.queryObject)
      q0 == "SELECT " \o (IF a.distinct THEN "DISTINCT " ELSE "") \o a.select \o " FROM \""
              \o (IF a.materialized_view # None THEN a.materialized_view[1] ELSE a.table_name)
              \o "\""
      q1 == IF whereClause.query # "" THEN q0 \o " " \o whereClause.query ELSE q0
      q2 == IF a.orderby # "" THEN q1 \o " " \o a.orderby ELSE q1
      q3 == IF a.groupby # "" THEN q2 \o " " \o a.groupby ELSE q2
      q4 == IF a.limit # "" THEN q3 \o " " \o a.limit ELSE q3
      q5 == IF a.allow_filtering THEN q4 \o " ALLOW FILTERING" ELSE q4
  IN [query |-> q5 \o ";", params |-> whereClause.params]

\* mutant: the ttl is bound last, as an insert binds it
UpdateStatementTtlLast(a) ==
  LET useTtl == isNumber(a.ttl)
      q0 == "UPDATE \"" \o a.table_name \o "\"" \o (IF useTtl THEN " USING TTL ?" ELSE "")
      whereClause == get_where_clause(a.queryObject)
      p1 == a.update.queryParams \o whereClause.params
      q1 == q0 \o " SET " \o Join(a.update.updateClauses, ", ") \o " " \o whereClause.query
      withIf == a.conditions # None /\ a.conditions[1].query # ""
      q2 == IF a.conditions # None
              THEN IF withIf THEN q1 \o " " \o a.conditions[1].query ELSE q1
              ELSE IF a.if_exists THEN q1 \o " IF EXISTS" ELSE q1
      p2 == IF withIf THEN p1 \o a.conditions[1].params ELSE p1
  IN [query |-> q2 \o ";", params |-> IF useTtl THEN p2 \o <<a.ttl[1].value>> ELSE p2]

\* mutant: if_exists is looked at first, the conditions only without it
UpdateStatementIfExistsFirst(a) ==
  LET useTtl == isNumber(a.ttl)
      q0 == "UPDATE \"" \o a.table_name \o "\"" \o (IF useTtl THEN " USING TTL ?" ELSE "")
      p0 == IF useTtl THEN <<a.ttl[1].value>> \o a.update.queryParams ELSE a.update.queryParams
      whereClause == get_where_clause(a.queryObject)
      p1 == p0 \o whereClause.params
      q1 == q0 \o " SET " \o Join(a.update.updateClauses, ", ") \o " " \o whereClause.query
      withIf == ~a.if_exists /\ a.conditions # None /\ a.conditions[1].query # ""
      q2 == IF a.if_exists THEN q1 \o " IF EXISTS"
            ELSE IF withIf THEN q1 \o " " \o a.conditions[1].query ELSE q1
      p2 == IF withIf THEN p1 \o a.conditions[1].params ELSE p1
  IN [query |-> q2 \o ";", params |-> p2]

\* the statement of BaseModel.update
UpdateStatement(a) ==
  LET useTtl == isNumber(a.ttl)
      q0 == "UPDATE \"" \o a.table_name \o "\"" \o (IF useTtl THEN " USING TTL ?" ELSE "")
      p0 == IF useTtl THEN <<a.ttl[1].value>> \o a.update.queryParams ELSE a.update.queryParams
      whereClause == get_where_clause(a.queryObject)
      p1 == p0 \o whereClause.params
      q1 == q0 \o " SET " \o Join(a.update.updateClauses, ", ") \o " " \o whereClause.query
      withIf == a.conditions # None /\ a.conditions[1].query # ""
      q2 == IF a.conditions # None
              THEN IF withIf THEN q1 \o " " \o a.conditions[1].query ELSE q1
              ELSE IF a.if_exists THEN q1 \o " IF EXISTS" ELSE q1
      p2 == IF withIf THEN p1 \o a.conditions[1].params ELSE p1
  IN [query |-> q2 \o ";", params |-> p2]

\* mutant: the parameters of the where clause are not bound
DeleteStatementNoParams(a) ==
  LET whereClause == get_where_clause(a.queryObject)
  IN [query |-> "DELETE FROM \"" \o a.table_name \o "\" " \o whereClause.query \o ";",
      params |-> <<>>]

\* the statement of BaseModel.delete
DeleteStatement(a) ==
  LET whereClause == get_where_clause(a.queryObject)
  IN [query |-> "DELETE FROM \"" \o a.table_name \o "\" " \o whereClause.query \o ";",
      params |-> <<>> \o whereClause.params]

\* mutant: the ttl is bound first, as an update binds it
SaveStatementTtlFirst(a) ==
  LET q0 == "INSERT INTO \"" \o a.table_name \o "\" ( " \o Join(a.save.identifiers, " , ")
              \o " ) VALUES ( " \o Join(a.save.values, " , ") \o " )"
      q1 == IF a.if_not_exist THEN q0 \o " IF NOT EXISTS" ELSE q0
      useTtl == isNumber(a.ttl)
      q2 == IF useTtl THEN q1 \o " USING TTL ?" ELSE q1
  IN [query |-> q2 \o ";",
      params |-> IF useTtl THEN <<a.ttl[1].value>> \o a.save.queryParams
                 ELSE a.save.queryParams]

\* the statement of BaseModel.prototype.save
SaveStatement(a) ==
  LET q0 == "INSERT INTO \"" \o a.table_name \o "\" ( " \o Join(a.save.identifiers, " , ")
              \o " ) VALUES ( " \o Join(a.save.values, " , ") \o " )"
      q1 == IF a.if_not_exist THEN q0 \o " IF NOT EXISTS" ELSE q0
      useTtl == isNumber(a.ttl)
      q2 == IF useTtl THEN q1 \o " USING TTL ?" ELSE q1
  IN [query |-> q2 \o ";",
      params |-> IF useTtl THEN a.save.queryParams \o <<a.ttl[1].value>>
                 ELSE a.save.queryParams]

\* the calls of the statement builders
FindCalls ==
  { [queryObject |-> q, orderby |-> o, groupby |-> g, limit |-> l, select |-> sel,
     distinct |-> d, materialized_view |-> mv, allow_filtering |-> af, table_name |-> "events"] :
      q \in QueryObjects \ { << [col |-> "ts", val |-> 7], [col |-> "id", val |-> 5] >> },
      o \in OrderbyClauses, g \in GroupbyClauses, l \in LimitClauses, sel \in SelectClauses,
      d \in BOOLEAN, mv \in {None, Some("view1")}, af \in BOOLEAN }
UpdateCalls ==
  { [table_name |-> "events", update |-> u, queryObject |-> q, ttl |-> t,
     conditions |-> c, if_exists |-> e] :
      u \in UpdateExpressions, q \in QueryObjects, t \in TtlOptions, c \in Conditions,
      e \in BOOLEAN }
DeleteCalls ==
  { [table_name |-> t, queryObject |-> q] : t \in TableNames, q \in QueryObjects }
SaveCalls ==
  { [table_name |-> "events", save |-> sv, if_not_exist |-> ine, ttl |-> t] :
      sv \in SaveExpressions, ine \in BOOLEAN, t \in TtlOptions }

\* a call of find, update, delete or save: the arguments of the statement, what the
\* before hook returns, whether a callback is given, options.return_query; then how the
\* call ended, the object it returned, the error it delivered, and what the returned
\* after_hook function gave when the application called it
StmtCall(fn, a) ==
  [fn |-> fn, args |-> a, out |-> None, before |-> "undeclared", cbGiven |-> TRUE,
   return_query |-> TRUE, outcome |-> "none", delivered |-> None, after |-> "uncalled",
   afterCalled |-> FALSE]

\* the table-scoped operation behind a statement builder
KindOf(fn) == IF fn = "get_find_query" THEN "find" ELSE fn

\* mutant: with return_query the statement is returned before the before hook is looked at
CallOutcomeReturnFirst(kind, before, cbGiven, return_query) ==
  IF kind = "find" /\ ~cbGiven /\ ~return_query THEN "cberror"
  ELSE IF return_query THEN "returned"
  ELSE IF kind \in Mutations /\ HookVetoes(before) THEN "rejected"
  ELSE "executes"

\* how the synchronous part of find, update, delete and save ends: find without callback
\* and without return_query throws; a before hook returning false rejects; then, the
\* statement built, return_query returns it; otherwise it goes to the gate
CallOutcome(kind, before, cbGiven, return_query) ==
  IF kind = "find" /\ ~cbGiven /\ ~return_query THEN "cberror"
  ELSE IF kind \in Mutations /\ HookVetoes(before) THEN "rejected"
  ELSE IF return_query THEN "returned"
  ELSE "executes"

\* the call stmt of an operation whose statement is statement
BuilderCall(statement) ==
  LET kind == KindOf(stmt.fn)
      o == CallOutcome(kind, stmt.before, stmt.cbGiven, stmt.return_query)
  IN  CASE o = "cberror" ->
             /\ stmt' = [stmt EXCEPT !.outcome = o,
                                     !.delivered = Some([how |-> "throw",
                                                         err |-> OpError(kind, "cberror")])]
             /\ UNCHANGED <<ready, tableOp>>
        [] o = "rejected" ->
             /\ stmt' = [stmt EXCEPT !.outcome = o,
                                     !.delivered = Some(callback_or_throw(
                                                     OpError(kind, "before.error"), stmt.cbGiven))]
             /\ UNCHANGED <<ready, tableOp>>
        [] o = "returned" ->
             /\ stmt' = [stmt EXCEPT !.outcome = o, !.out = Some(statement)]
             /\ UNCHANGED <<ready, tableOp>>
        [] OTHER ->
             /\ stmt' = [stmt EXCEPT !.outcome = o]
             /\ StartOperation(kind, stmt.before, FALSE, stmt.cbGiven)

InitStmt ==
  /\ nodeEnv = "development"
  /\ properties = [migration |-> None, dropTableOnSchemaChange |-> FALSE, createTable |-> None,
                   schema |-> OperationSchema,
                   esclient |-> FALSE, schema_es_index_mapping |-> FALSE,
                   gremlin_client |-> FALSE, schema_graph_mapping |-> FALSE]
  /\ ready = FALSE
  /\ syncs = 0
  /\ pc = "idle"
  /\ migration = Undefined
  /\ ops = <<>>
  /\ dbReply = None
  /\ replyErr = NoReplies
  /\ recreateViews = None
  /\ tasks = NoTasks
  /\ promise = NoPromise
  /\ created = {}
  /\ syncCb = <<>>
  /\ result = Undefined
  /\ userCb = <<>>
  /\ nops = 0
  /\ tableOp = NoOp
  /\ instance = NewInstance
  /\ ApolloIdle
  /\ \E before \in Hooks, cbGiven \in BOOLEAN, return_query \in BOOLEAN :
       \E call \in {StmtCall("get_find_query", a) : a \in FindCalls}
                     \cup {StmtCall("update", a) : a \in UpdateCalls}
                     \cup {StmtCall("delete", a) : a \in DeleteCalls}
                     \cup {StmtCall("save", a) : a \in SaveCalls} :
         \* find has no hooks
         /\ call.fn = "get_find_query" => before = "undeclared"
         /\ stmt = [call EXCEPT !.before = before, !.cbGiven = cbGiven,
                                !.return_query = return_query]

\* find(queryObject, options, callback): the call, up to the return or to the gate
FindReturnQuery ==
  /\ stmt.fn = "get_find_query" /\ stmt.outcome = "none"
  /\ BuilderCall(get_find_query(stmt.args))
  /\ UNCHANGED <<apolloVars, syncVars, nops, instance>>

\* update(queryObject, updateValues, options, callback): the call
UpdateReturnQuery ==
  /\ stmt.fn = "update" /\ stmt.outcome = "none"
  /\ BuilderCall(UpdateStatement(stmt.args))
  /\ UNCHANGED <<apolloVars, syncVars, nops, instance>>

\* delete(queryObject, options, callback): the call
DeleteReturnQuery ==
  /\ stmt.fn = "delete" /\ stmt.outcome = "none"
  /\ BuilderCall(DeleteStatement(stmt.args))
  /\ UNCHANGED <<apolloVars, syncVars, nops, instance>>

\* save(options, callback): the call
SaveReturnQuery ==
  /\ stmt.fn = "save" /\ stmt.outcome = "none"
  /\ BuilderCall(SaveStatement(stmt.args))
  /\ UNCHANGED <<apolloVars, syncVars, nops, instance>>

\* the application calls the after_hook function of the object that update, delete or
\* save returned; the hook, when declared, returns after
AfterHook ==
  /\ stmt.outcome = "returned" /\ stmt.fn \in Mutations /\ stmt.after = "uncalled"
  /\ \E after \in Hooks :
       stmt' = [stmt EXCEPT
                  !.after = IF HookVetoes(after) THEN OpError(stmt.fn, "after.error")
                            ELSE "true",
                  !.afterCalled = after # "undeclared"]
  /\ UNCHANGED <<apolloVars, syncVars, ready, nops, tableOp, instance>>

NextStmt ==
  \/ FindReturnQuery
  \/ UpdateReturnQuery
  \/ DeleteReturnQuery
  \/ SaveReturnQuery
  \/ AfterHook
  \/ ExecuteQueryCallback

SpecStmt == InitStmt /\ [][NextStmt]_vars

\* ------------------------------------------------- Apollo.init: provisioning
\* the stages of init, in the order of its callbacks
Stages == <<"keyspace", "udt", "udf", "uda", "management">>
StageIndex(s) ==
  CASE s = "keyspace" -> 1
    [] s = "udt" -> 2
    [] s = "udf" -> 3
    [] s = "uda" -> 4
    [] s = "management" -> 5

\* mutant: the aggregates are asserted before the functions
AfterAggregatesFirst(s) ==
  CASE s = "keyspace" -> "udt"
    [] s = "udt" -> "uda"
    [] s = "uda" -> "udf"
    [] s = "udf" -> "management"
    [] OTHER -> "done"

\* the stage that the callback of stage s starts: onKeyspace starts the types, and so on
After(s) == IF StageIndex(s) < Len(Stages) THEN Stages[StageIndex(s) + 1] ELSE "done"

\* an item of a stage waits, has an operation pending, or has ended
PendingStatus == {"introspect", "ddl", "shutdown", "assert"}
HasPending(its) == \E k \in DOMAIN its : its[k] \in PendingStatus

\* options.udts[udtKey]: field names in declaration order and their types
UdtDecl == [keys |-> <<"street", "zip">>, values |-> <<"TEXT", "int">>]

\* udtObject, the row of system_schema.types found by get_udt
LiveUdts ==
  { [field_names |-> <<"street", "zip">>, field_types |-> <<"text", "int">>],
    [field_names |-> <<"street", "zip", "city">>, field_types |-> <<"text", "int", "text">>],
    [field_names |-> <<"street">>, field_types |-> <<"text">>],
    [field_names |-> <<"street", "zip">>, field_types |-> <<"int", "text">>],
    [field_names |-> <<"street", "zip">>, field_types |-> <<"text", "bigint">>],
    [field_names |-> <<"road", "zip">>, field_types |-> <<"text", "int">>] }

\* options.udfs[udfKey] and options.udas[udaKey], by what validate_definition says
FunctionDecls == {[valid |-> TRUE], [valid |-> FALSE]}

\* the declarations under one of udts, udfs, udas: absent, or a list in declaration order
DeclaredLists(decls, max) ==
  {None} \cup {Some(l) : l \in UNION {[1..n -> decls] : n \in 0..max}}

\* keyspaceObject.replication, the row of system_schema.keyspaces found by get_keyspace
LiveReplications ==
  { [class |-> "org.apache.cassandra.locator.SimpleStrategy",
     replication_factor |-> [type |-> "string", value |-> 1]],
    [class |-> "org.apache.cassandra.locator.SimpleStrategy",
     replication_factor |-> [type |-> "string", value |-> 3]],
    [class |-> "org.apache.cassandra.locator.NetworkTopologyStrategy",
     replication_factor |-> [type |-> "string", value |-> 1]] }

\* parseInt(value, 10): the number a decimal string or a number stands for
parseInt(v) == [type |-> "number", value |-> v.value]

\* normalizer.normalize_replication_option: class without its package, factors as integers
normalize_replication_option(r) ==
  [class |-> CASE r.class = "org.apache.cassandra.locator.SimpleStrategy" -> "SimpleStrategy"
               [] r.class = "org.apache.cassandra.locator.NetworkTopologyStrategy" ->
                    "NetworkTopologyStrategy"
               [] OTHER -> r.class,
   replication_factor |-> parseInt(r.replication_factor)]

\* normalizer.normalize_user_defined_type
normalize_user_defined_type(t) == NormalizeType(t)

\* _.map(types, normalizer.normalize_user_defined_type)
NormalizeTypes(types) == [i \in DOMAIN types |-> normalize_user_defined_type(types[i])]

\* _.difference(a, b): the values of a that are not in b
difference(a, b) == SelectSeq(a, LAMBDA x : x \notin Range(b))

\* the test of _assert_user_defined_types on a type that exists
UdtMatches(decl, udtObject) ==
  LET udtKeys == decl.keys
      udtValues == NormalizeTypes(decl.values)
      fieldNames == udtObject.field_names
      fieldTypes == NormalizeTypes(udtObject.field_types)
  IN  /\ Len(difference(udtKeys, fieldNames)) = 0
      /\ Len(difference(udtValues, fieldTypes)) = 0

\* options.udfs[udfKey] of a function that validate_definition accepts
UdfDecl ==
  [language |-> "java", code |-> "return a + b;", returnType |-> "TEXT",
   inputs |-> [keys |-> <<"a", "b">>, values |-> <<"int", "TEXT">>]]

\* the function declared, as system_schema.functions holds it
LiveUdf ==
  [language |-> "java", body |-> "return a + b;", return_type |-> "text",
   argument_names |-> <<"a", "b">>, argument_types |-> <<"int", "text">>]

\* udfObject found by get_udf: the function declared, or one that differs in one respect
LiveUdfs ==
  { LiveUdf,
    [LiveUdf EXCEPT !.language = "javascript"],
    [LiveUdf EXCEPT !.body = "return a - b;"],
    [LiveUdf EXCEPT !.return_type = "int"],
    [LiveUdf EXCEPT !.argument_names = <<"b", "a">>],
    [LiveUdf EXCEPT !.argument_types = <<"text", "int">>] }

\* mutant: the argument names are compared whatever their order
UdfMatchesAnyOrder(decl, udfObject) ==
  /\ decl.language = udfObject.language
  /\ decl.code = udfObject.body
  /\ normalize_user_defined_type(decl.returnType)
       = normalize_user_defined_type(udfObject.return_type)
  /\ Range(decl.inputs.keys) = Range(udfObject.argument_names)
  /\ NormalizeTypes(decl.inputs.values) = NormalizeTypes(udfObject.argument_types)

\* the test of _assert_user_defined_functions on a function that exists
UdfMatches(decl, udfObject) ==
  /\ decl.language = udfObject.language
  /\ decl.code = udfObject.body
  /\ normalize_user_defined_type(decl.returnType)
       = normalize_user_defined_type(udfObject.return_type)
  /\ decl.inputs.keys = udfObject.argument_names
  /\ NormalizeTypes(decl.inputs.values) = NormalizeTypes(udfObject.argument_types)

\* options.udas[udaKey] of an aggregate that validate_definition accepts
UdaDecl ==
  [input_types |-> <<"int">>, sfunc |-> "avgState", stype |-> "TEXT",
   finalfunc |-> Some("avgFinal"), initcond |-> Some("(0, 0)")]

\* the aggregate declared, as system_schema.aggregates holds it
LiveUda ==
  [argument_types |-> <<"int">>, state_func |-> "avgstate", state_type |-> "text",
   final_func |-> Some("avgfinal"), initcond |-> Some("(0,0)")]

\* udaObjects found by get_uda: the overloads of the aggregate; the overload declared is
\* among them, or only overloads that differ in one respect
LiveUdas ==
  { <<LiveUda>>,
    <<[LiveUda EXCEPT !.argument_types = <<"text">>], LiveUda>>,
    <<[LiveUda EXCEPT !.argument_types = <<"text">>]>>,
    <<[LiveUda EXCEPT !.state_func = "sumstate"]>>,
    <<[LiveUda EXCEPT !.state_type = "int"]>>,
    <<[LiveUda EXCEPT !.final_func = None]>>,
    <<[LiveUda EXCEPT !.initcond = None]>> }

\* String.prototype.toLowerCase on the function names in use
toLowerCase(name) ==
  CASE name = "avgState" -> "avgstate"
    [] name = "avgFinal" -> "avgfinal"
    [] OTHER -> name

\* initcond.replace(/[\s]/g, '') on the initial conditions in use
StripSpaces(text) ==
  CASE text = "(0, 0)" -> "(0,0)"
    [] OTHER -> text

\* the test of _assert_user_defined_aggregates on the overloads that exist
UdaMatches(decl, udaObjects) ==
  LET inputTypes == NormalizeTypes(decl.input_types)
      sfunc == toLowerCase(decl.sfunc)
      stype == normalize_user_defined_type(decl.stype)
      finalfunc == IF decl.finalfunc # None THEN Some(toLowerCase(decl.finalfunc[1])) ELSE None
      initcond == IF decl.initcond # None THEN Some(StripSpaces(decl.initcond[1])) ELSE None
  IN  \E i \in DOMAIN udaObjects :
        /\ sfunc = udaObjects[i].state_func
        /\ stype = normalize_user_defined_type(udaObjects[i].state_type)
        /\ finalfunc = udaObjects[i].final_func
        /\ initcond = (IF udaObjects[i].initcond # None
                       THEN Some(StripSpaces(udaObjects[i].initcond[1])) ELSE None)
        /\ inputTypes = NormalizeTypes(udaObjects[i].argument_types)

\* mutant: replications are compared as the database returns them
KeyspaceDecisionRaw(o, reply) ==
  IF reply.err # NoErr THEN "error"
  ELSE IF reply.obj = None THEN "create"
  ELSE IF reply.obj[1] # o.defaultReplicationStrategy THEN "alter"
  ELSE "none"

\* what the callback of get_keyspace in _assert_keyspace decides
KeyspaceDecision(o, reply) ==
  IF reply.err # NoErr THEN "error"
  ELSE IF reply.obj = None THEN "create"
  ELSE IF normalize_replication_option(reply.obj[1])
            # normalize_replication_option(o.defaultReplicationStrategy) THEN "alter"
  ELSE "none"

\* managementTasks of onUserDefinedAggregates
managementTasks(o) ==
  (IF o.keyspace /\ o.manageESIndex THEN <<"assert_es_index">> ELSE <<>>)
    \o (IF o.keyspace /\ o.manageGraphs THEN <<"assert_gremlin_graph">> ELSE <<>>)

\* the declarations a stage goes through
Declared(o, s) ==
  CASE s = "udt" -> o.udts
    [] s = "udf" -> o.udfs
    [] s = "uda" -> o.udas

\* the number of items of a stage
NumItems(o, s) ==
  CASE s = "keyspace" -> IF o.keyspace /\ o.createKeyspace # Some(FALSE) THEN 1 ELSE 0
    [] s = "management" -> Len(managementTasks(o))
    [] OTHER -> IF Declared(o, s) = None THEN 0 ELSE Len(Declared(o, s)[1])

\* validate_definition throws on item k of stage s
Invalid(o, s, k) == s \in {"udf", "uda"} /\ ~Declared(o, s)[1][k].valid

\* mutant: the mapper is called for every item at once
mapSeriesAllAtOnce(n, resolved) == IF resolved = 0 THEN 1..n ELSE {}

\* Promise.mapSeries over n items: the items the mapper is called for, once resolved of
\* them have resolved
mapSeries(n, resolved) == IF resolved < n THEN {resolved + 1} ELSE {}

\* the items a stage starts with
FirstItems(o, s) ==
  CASE s = "keyspace" -> {1}
    [] s = "management" -> 1..NumItems(o, s)
    [] OTHER -> mapSeries(NumItems(o, s), 0)

\* the operation an item starts with, and its status while that operation is pending
FirstOp(o, s, k) ==
  CASE s = "keyspace" -> "get_keyspace"
    [] s = "udt" -> "get_udt"
    [] s = "udf" -> "get_udf"
    [] s = "uda" -> "get_uda"
    [] s = "management" -> managementTasks(o)[k]
FirstStatus(s) == IF s = "management" THEN "assert" ELSE "introspect"

\* a call of a builder: the call of init that made it (the first, unless Apply or GoOn say
\* otherwise), the stage, the item and the operation
ProvOp(s, k, op) == [call |-> 1, stage |-> s, item |-> k, op |-> op]
InitCallback(err) == [err |-> err, result |-> IF err = NoErr THEN "this" ELSE Undefined]
StageCallback(s, err) == [stage |-> s, err |-> err]

\* the mapper is called for the items K of stage s; validate_definition throwing in the
\* mapper rejects the chain, and the catch handler runs in the same turn
Start(o, s, its, K) ==
  LET its2 == [k \in DOMAIN its |->
                 IF k \in K THEN (IF Invalid(o, s, k) THEN "failed" ELSE FirstStatus(s))
                 ELSE its[k]]
      order == SelectSeq([k \in DOMAIN its |-> k], LAMBDA k : k \in K /\ ~Invalid(o, s, k))
      rejected == \E k \in K : Invalid(o, s, k)
  IN  [prov |-> [stage |-> IF rejected /\ ~HasPending(its2) THEN "done" ELSE s,
                 items |-> its2, settled |-> rejected, queue |-> "none",
                 err |-> IF rejected THEN ErrorOf("validate_definition") ELSE NoErr],
       ops |-> [i \in DOMAIN order |-> ProvOp(s, order[i], FirstOp(o, s, order[i]))],
       reports |-> IF rejected THEN <<StageCallback(s, ErrorOf("validate_definition"))>>
                   ELSE <<>>,
       cb |-> IF rejected THEN <<InitCallback(ErrorOf("validate_definition"))>> ELSE <<>>]

\* stage s reports success and init goes on as r says
Succeed(s, r) == [r EXCEPT !.reports = <<StageCallback(s, NoErr)>> \o r.reports]

\* the promise chain of stage s has a handler to run in a later turn of the event loop: the
\* next call of the mapper or the then handler (q = "next"), or the catch handler
\* (q = "catch") with the error the chain was rejected with
Queue(s, its, q, err) ==
  [prov |-> [stage |-> s, items |-> its, settled |-> (q = "catch"), queue |-> q, err |-> err],
   ops |-> <<>>, reports |-> <<>>, cb |-> <<>>]

\* init enters stage s, from plain code (init itself, a callback of the driver) or from a
\* handler of a promise (inHandler): a stage without declarations calls back at once; the
\* management tasks and get_keyspace are started at once; what a promise chain does first
\* (the first call of the mapper, the handler of a chain with nothing to wait for) is done
\* at once inside a handler and in a later turn otherwise
RECURSIVE Enter(_, _, _), Continue(_, _, _)
Enter(o, s, inHandler) ==
  IF s = "done"
  THEN [prov |-> [stage |-> "done", items |-> <<>>, settled |-> TRUE,
                  queue |-> "none", err |-> NoErr],
        ops |-> <<>>, reports |-> <<>>, cb |-> <<InitCallback(NoErr)>>]
  ELSE IF s = "keyspace"
  THEN IF NumItems(o, s) = 0 THEN Succeed(s, Enter(o, After(s), inHandler))
       ELSE Start(o, s, <<"waiting">>, FirstItems(o, s))
  ELSE IF s = "management"
  THEN IF NumItems(o, s) > 0
       THEN Start(o, s, [k \in 1..NumItems(o, s) |-> "waiting"], FirstItems(o, s))
       ELSE IF inHandler THEN Continue(o, s, <<>>)
       ELSE Queue(s, <<>>, "next", NoErr)
  ELSE IF Declared(o, s) = None THEN Succeed(s, Enter(o, After(s), inHandler))
  ELSE IF inHandler THEN Continue(o, s, [k \in 1..NumItems(o, s) |-> "waiting"])
  ELSE Queue(s, [k \in 1..NumItems(o, s) |-> "waiting"], "next", NoErr)

\* the promise chain of stage s goes on inside a handler, its items standing as its: the
\* mapper is called for the next item, or, every item resolved, the then handler calls back
Continue(o, s, its) ==
  LET resolved == Cardinality({k \in DOMAIN its : its[k] = "ok"})
  IN  IF resolved = Len(its) THEN Succeed(s, Enter(o, After(s), TRUE))
      ELSE Start(o, s, its,
                 mapSeries(Len(its), resolved) \ {k \in DOMAIN its : its[k] # "waiting"})

\* the catch handler of the chain of p.stage calls back with the error
Catch(p) ==
  [prov |-> [p EXCEPT !.queue = "none",
                      !.stage = IF HasPending(p.items) THEN p.stage ELSE "done"],
   ops |-> <<>>, reports |-> <<StageCallback(p.stage, p.err)>>,
   cb |-> <<InitCallback(p.err)>>]

\* an item of stage p.stage has ended with err in a callback of the driver and the items now
\* stand as its: the keyspace stage calls back in the callback; udtCallback, udfCallback and
\* udaCallback only resolve or reject the promise of the item; a management task that
\* succeeds last runs the then handler in the callback, one that fails queues the catch
Proceed(o, p, its, err) ==
  LET s == p.stage
      resolved == Cardinality({k \in DOMAIN its : its[k] = "ok"})
  IN  IF p.settled
      THEN [prov |-> [p EXCEPT !.items = its,
                               !.stage = IF HasPending(its) \/ p.queue # "none"
                                           THEN s ELSE "done"],
            ops |-> <<>>, reports |-> <<>>, cb |-> <<>>]
      ELSE IF s = "keyspace"
      THEN IF err # NoErr
           THEN [prov |-> [stage |-> "done", items |-> its, settled |-> TRUE,
                           queue |-> "none", err |-> err],
                 ops |-> <<>>, reports |-> <<StageCallback(s, err)>>,
                 cb |-> <<InitCallback(err)>>]
           ELSE Succeed(s, Enter(o, After(s), FALSE))
      ELSE IF s = "management"
      THEN IF err # NoErr THEN Queue(s, its, "catch", err)
           ELSE IF resolved = Len(its) THEN Continue(o, s, its)
           ELSE [prov |-> [p EXCEPT !.items = its], ops |-> <<>>, reports |-> <<>>, cb |-> <<>>]
      ELSE Queue(s, its, IF err # NoErr THEN "catch" ELSE "next", err)

\* the c-th call of init goes on as r says
Apply(c, r) ==
  /\ prov' = [i \in DOMAIN prov \cup {c} |-> IF i = c THEN r.prov ELSE prov[i]]
  /\ provOps' = provOps \o [i \in DOMAIN r.ops |-> [r.ops[i] EXCEPT !.call = c]]
  /\ stageCb' = stageCb \o r.reports
  /\ initCb' = initCb \o r.cb

\* an item of the c-th call of init goes on with a further operation
GoOn(c, s, k, op, status) ==
  /\ prov' = [prov EXCEPT ![c].items[k] = status]
  /\ provOps' = Append(provOps, [ProvOp(s, k, op) EXCEPT !.call = c])
  /\ UNCHANGED <<stageCb, initCb>>

\* the builder call the c-th call of init made last
LastOp(c) ==
  provOps[CHOOSE i \in DOMAIN provOps :
            /\ provOps[i].call = c
            /\ \A j \in DOMAIN provOps : provOps[j].call = c => j <= i]

Reply(s, k, err, obj) == Some([stage |-> s, item |-> k, err |-> err, obj |-> obj])
StatusOf(err) == IF err = NoErr THEN "ok" ELSE "failed"

\* _set_client(new cql.Client(...)): the registry takes the new client and a new definition
\* connection, and hands both, and only these, to every registered model
set_client(h) ==
  LET client == Object("client", h.made + 1)
      define_connection == Object("define_connection", h.made + 2)
  IN  [h EXCEPT !.registry.client = client,
                !.registry.define_connection = define_connection,
                !.model = [n \in ModelNames |->
                             IF h.model[n] = None THEN None
                             ELSE Some([h.model[n][1] EXCEPT
                                          !.cql = client,
                                          !.define_connection = define_connection])],
                !.made = h.made + 2]

\* create_es_client: this._esclient = new elasticsearch.Client(...)
create_es_client(h) ==
  [h EXCEPT !.registry.esclient = Object("esclient", h.made + 1), !.made = h.made + 1]

\* create_gremlin_client: this._gremlin_client = gremlin.createClient(...)
create_gremlin_client(h) ==
  [h EXCEPT !.registry.gremlin_client = Object("gremlin_client", h.made + 1),
            !.made = h.made + 1]

\* the handles after a step of init: onKeyspace called without error sets the client, the
\* management tasks started create the search and graph clients
ProvisionedHandles ==
  LET reports == SubSeq(stageCb', Len(stageCb) + 1, Len(stageCb'))
      started == SubSeq(provOps', Len(provOps) + 1, Len(provOps'))
      h1 == IF StageCallback("keyspace", NoErr) \in Range(reports)
              THEN set_client(handles) ELSE handles
      h2 == IF \E i \in DOMAIN started : started[i].op = "assert_es_index"
              THEN create_es_client(h1) ELSE h1
  IN  IF \E i \in DOMAIN started : started[i].op = "assert_gremlin_graph"
        THEN create_gremlin_client(h2) ELSE h2

\* init(callback)
ApolloInit ==
  /\ prov[1].stage = "idle"
  /\ Apply(1, Enter(ormOptions, "keyspace", FALSE))
  /\ UNCHANGED provReply
  /\ UNCHANGED <<ormOptions, models, added, syncVars, ready, queryVars>>
  /\ handles' = ProvisionedHandles

\* bluebird runs the handler queued on the promise chain of the stage, in a turn of the event
\* loop after the one that queued it: the first or next call of the mapper of mapSeries, the
\* then handler of a chain with nothing left to wait for, or the catch handler
ChainHandler ==
  \E c \in DOMAIN prov :
    /\ prov[c].queue # "none"
    /\ Apply(c, IF prov[c].queue = "catch" THEN Catch(prov[c])
             ELSE Continue(ormOptions, prov[c].stage, prov[c].items))
    /\ UNCHANGED provReply
    /\ UNCHANGED <<ormOptions, models, added, syncVars, ready, queryVars>>
    /\ handles' = ProvisionedHandles

\* the callback of get_keyspace in _assert_keyspace
GetKeyspaceCallback ==
  \E c \in DOMAIN prov :
    /\ prov[c].stage = "keyspace"
    /\ prov[c].items[1] = "introspect"
    /\ \E err \in {NoErr, ErrorOf("get_keyspace")},
          obj \in {None} \cup {Some(r) : r \in LiveReplications} :
         /\ err # NoErr => obj = None
         /\ provReply' = Reply("keyspace", 1, err, obj)
         /\ LET decision == KeyspaceDecision(ormOptions, [err |-> err, obj |-> obj])
            IN  CASE decision = "error" ->
                       Apply(c, Proceed(ormOptions, prov[c], <<"failed">>, err))
                  [] decision = "create" -> GoOn(c, "keyspace", 1, "create_keyspace", "ddl")
                  [] decision = "alter" -> GoOn(c, "keyspace", 1, "alter_keyspace", "ddl")
                  [] decision = "none" -> GoOn(c, "keyspace", 1, "shutdown", "shutdown")
    /\ UNCHANGED <<ormOptions, models, added, syncVars, ready, queryVars>>
    /\ handles' = ProvisionedHandles

\* callback as the callback of create_keyspace or alter_keyspace
KeyspaceDdlCallback ==
  \E c \in DOMAIN prov :
    /\ prov[c].stage = "keyspace"
    /\ prov[c].items[1] = "ddl"
    /\ \E err \in {NoErr, ErrorOf(LastOp(c).op)} :
         Apply(c, Proceed(ormOptions, prov[c], <<StatusOf(err)>>, err))
    /\ UNCHANGED provReply
    /\ UNCHANGED <<ormOptions, models, added, syncVars, ready, queryVars>>
    /\ handles' = ProvisionedHandles

\* the callback of client.shutdown in _assert_keyspace
ShutdownCallback ==
  \E c \in DOMAIN prov :
    /\ prov[c].stage = "keyspace"
    /\ prov[c].items[1] = "shutdown"
    /\ Apply(c, Proceed(ormOptions, prov[c], <<"ok">>, NoErr))
    /\ UNCHANGED provReply
    /\ UNCHANGED <<ormOptions, models, added, syncVars, ready, queryVars>>
    /\ handles' = ProvisionedHandles

\* the callback of get_udt in _assert_user_defined_types, for one declared type; a type that
\* exists and does not match makes the callback throw, outside of the promise of the item
GetUdtCallback ==
  \E c \in DOMAIN prov :
    /\ prov[c].stage = "udt"
    /\ \E k \in DOMAIN prov[c].items, err \in {NoErr, ErrorOf("get_udt")},
          obj \in {None} \cup {Some(u) : u \in LiveUdts} :
         /\ prov[c].items[k] = "introspect"
         /\ err # NoErr => obj = None
         /\ provReply' = Reply("udt", k, err, obj)
         /\ IF err # NoErr
            THEN Apply(c, Proceed(ormOptions, prov[c], [prov[c].items EXCEPT ![k] = "failed"], err))
            ELSE IF obj = None
            THEN GoOn(c, "udt", k, "create_udt", "ddl")
            ELSE IF UdtMatches(ormOptions.udts[1][k], obj[1])
            THEN Apply(c, Proceed(ormOptions, prov[c], [prov[c].items EXCEPT ![k] = "ok"], NoErr))
            ELSE /\ prov' = [prov EXCEPT ![c].stage = "uncaught", ![c].items[k] = "thrown"]
                 /\ UNCHANGED <<provOps, stageCb, initCb>>
    /\ UNCHANGED <<ormOptions, models, added, syncVars, ready, queryVars>>
    /\ handles' = ProvisionedHandles

\* udtCallback as the callback of create_udt
CreateUdtCallback ==
  \E c \in DOMAIN prov :
    /\ prov[c].stage = "udt"
    /\ \E k \in DOMAIN prov[c].items, err \in {NoErr, ErrorOf("create_udt")} :
         /\ prov[c].items[k] = "ddl"
         /\ Apply(c, Proceed(ormOptions, prov[c], [prov[c].items EXCEPT ![k] = StatusOf(err)], err))
    /\ UNCHANGED provReply
    /\ UNCHANGED <<ormOptions, models, added, syncVars, ready, queryVars>>
    /\ handles' = ProvisionedHandles

\* the callback of get_udf in _assert_user_defined_functions, for one declared function
GetUdfCallback ==
  \E c \in DOMAIN prov :
    /\ prov[c].stage = "udf"
    /\ \E k \in DOMAIN prov[c].items, err \in {NoErr, ErrorOf("get_udf")},
          obj \in {None} \cup {Some(u) : u \in LiveUdfs} :
         /\ prov[c].items[k] = "introspect"
         /\ err # NoErr => obj = None
         /\ provReply' = Reply("udf", k, err, obj)
         /\ IF err # NoErr
            THEN Apply(c, Proceed(ormOptions, prov[c], [prov[c].items EXCEPT ![k] = "failed"], err))
            ELSE IF obj = None \/ ~UdfMatches(UdfDecl, obj[1])
            THEN GoOn(c, "udf", k, "create_udf", "ddl")
            ELSE Apply(c, Proceed(ormOptions, prov[c], [prov[c].items EXCEPT ![k] = "ok"], NoErr))
    /\ UNCHANGED <<ormOptions, models, added, syncVars, ready, queryVars>>
    /\ handles' = ProvisionedHandles

\* udfCallback as the callback of create_udf
CreateUdfCallback ==
  \E c \in DOMAIN prov :
    /\ prov[c].stage = "udf"
    /\ \E k \in DOMAIN prov[c].items, err \in {NoErr, ErrorOf("create_udf")} :
         /\ prov[c].items[k] = "ddl"
         /\ Apply(c, Proceed(ormOptions, prov[c], [prov[c].items EXCEPT ![k] = StatusOf(err)], err))
    /\ UNCHANGED provReply
    /\ UNCHANGED <<ormOptions, models, added, syncVars, ready, queryVars>>
    /\ handles' = ProvisionedHandles

\* the callback of get_uda in _assert_user_defined_aggregates, for one declared aggregate
GetUdaCallback ==
  \E c \in DOMAIN prov :
    /\ prov[c].stage = "uda"
    /\ \E k \in DOMAIN prov[c].items, err \in {NoErr, ErrorOf("get_uda")},
          obj \in {None} \cup {Some(u) : u \in LiveUdas} :
         /\ prov[c].items[k] = "introspect"
         /\ err # NoErr => obj = None
         /\ provReply' = Reply("uda", k, err, obj)
         /\ IF err # NoErr
            THEN Apply(c, Proceed(ormOptions, prov[c], [prov[c].items EXCEPT ![k] = "failed"], err))
            ELSE IF obj = None \/ ~UdaMatches(UdaDecl, obj[1])
            THEN GoOn(c, "uda", k, "create_uda", "ddl")
            ELSE Apply(c, Proceed(ormOptions, prov[c], [prov[c].items EXCEPT ![k] = "ok"], NoErr))
    /\ UNCHANGED <<ormOptions, models, added, syncVars, ready, queryVars>>
    /\ handles' = ProvisionedHandles

\* udaCallback as the callback of create_uda
CreateUdaCallback ==
  \E c \in DOMAIN prov :
    /\ prov[c].stage = "uda"
    /\ \E k \in DOMAIN prov[c].items, err \in {NoErr, ErrorOf("create_uda")} :
         /\ prov[c].items[k] = "ddl"
         /\ Apply(c, Proceed(ormOptions, prov[c], [prov[c].items EXCEPT ![k] = StatusOf(err)], err))
    /\ UNCHANGED provReply
    /\ UNCHANGED <<ormOptions, models, added, syncVars, ready, queryVars>>
    /\ handles' = ProvisionedHandles

\* the callback of assert_index in _assert_es_index, promisified
AssertEsIndexCallback ==
  \E c \in DOMAIN prov :
    /\ prov[c].stage = "management"
    /\ \E k \in DOMAIN prov[c].items, err \in {NoErr, ErrorOf("assert_es_index")} :
         /\ managementTasks(ormOptions)[k] = "assert_es_index"
         /\ prov[c].items[k] = "assert"
         /\ Apply(c, Proceed(ormOptions, prov[c], [prov[c].items EXCEPT ![k] = StatusOf(err)], err))
    /\ UNCHANGED provReply
    /\ UNCHANGED <<ormOptions, models, added, syncVars, ready, queryVars>>
    /\ handles' = ProvisionedHandles

\* the callback of assert_graph in _assert_gremlin_graph, promisified
AssertGremlinGraphCallback ==
  \E c \in DOMAIN prov :
    /\ prov[c].stage = "management"
    /\ \E k \in DOMAIN prov[c].items, err \in {NoErr, ErrorOf("assert_gremlin_graph")} :
         /\ managementTasks(ormOptions)[k] = "assert_gremlin_graph"
         /\ prov[c].items[k] = "assert"
         /\ Apply(c, Proceed(ormOptions, prov[c], [prov[c].items EXCEPT ![k] = StatusOf(err)], err))
    /\ UNCHANGED provReply
    /\ UNCHANGED <<ormOptions, models, added, syncVars, ready, queryVars>>
    /\ handles' = ProvisionedHandles

\* an Apollo instance as constructed from its connection and options; no model is synced
InitApollo ==
  /\ nodeEnv = "development"
  /\ properties = [migration |-> None, dropTableOnSchemaChange |-> FALSE, createTable |-> None,
                   schema |-> OperationSchema,
                   esclient |-> FALSE, schema_es_index_mapping |-> FALSE,
                   gremlin_client |-> FALSE, schema_graph_mapping |-> FALSE]
  /\ ready = FALSE
  /\ syncs = 0
  /\ pc = "idle"
  /\ migration = Undefined
  /\ ops = <<>>
  /\ dbReply = None
  /\ replyErr = NoReplies
  /\ recreateViews = None
  /\ tasks = NoTasks
  /\ promise = NoPromise
  /\ created = {}
  /\ syncCb = <<>>
  /\ result = Undefined
  /\ userCb = <<>>
  /\ nops = 0
  /\ tableOp = NoOp
  /\ instance = NewInstance
  /\ stmt = NoStmt
  /\ \E ks \in BOOLEAN, ck \in {None, Some(FALSE)},
        ts \in DeclaredLists({UdtDecl}, MaxItems), fs \in DeclaredLists(FunctionDecls, MaxItems),
        as \in DeclaredLists(FunctionDecls, MaxAggregates),
        es \in BOOLEAN, gr \in BOOLEAN :
       \* createKeyspace and the management flags are read only when a keyspace is
       \* configured; the items declared after an invalid definition are never looked at
       /\ ~ks => ck = None /\ ~es /\ ~gr
       /\ \A l \in {fs, as} :
            l # None => Cardinality({k \in DOMAIN l[1] : ~l[1][k].valid}) <= 1
       /\ ormOptions = [keyspace |-> ks, createKeyspace |-> ck,
                     defaultReplicationStrategy |-> DefaultReplicationStrategy,
                     udts |-> ts, udfs |-> fs, udas |-> as,
                     manageESIndex |-> es, manageGraphs |-> gr]
  /\ prov = <<NoProv>>
  /\ provOps = <<>>
  /\ provReply = None
  /\ stageCb = <<>>
  /\ initCb = <<>>
  /\ models = NoModels
  /\ added = None
  /\ handles = NoHandles

NextApollo ==
  \/ ApolloInit
  \/ ChainHandler
  \/ GetKeyspaceCallback
  \/ KeyspaceDdlCallback
  \/ ShutdownCallback
  \/ GetUdtCallback
  \/ CreateUdtCallback
  \/ GetUdfCallback
  \/ CreateUdfCallback
  \/ GetUdaCallback
  \/ CreateUdaCallback
  \/ AssertEsIndexCallback
  \/ AssertGremlinGraphCallback

SpecApollo == InitApollo /\ [][NextApollo]_vars

\* ------------------------------------------------- Apollo.addModel, getModel
\* modelName as handed to addModel: a string, the empty string, a number
NameInputs ==
  { [type |-> "string", value |-> "users"],
    [type |-> "string", value |-> "9lives"],
    [type |-> "string", value |-> ""],
    [type |-> "number", value |-> "42"] }

\* !modelName || typeof modelName !== 'string'
InvalidModelName(modelName) == modelName.value = "" \/ modelName.type # "string"

\* schemer.validate_table_name: a letter, then letters, digits and underscores
validate_table_name(tableName) == tableName \notin {"9lives", "1bad"}

\* modelSchema.fields as declared
DeclaredFields ==
  [f \in {"id", "name"} |->
     IF f = "id" THEN [type |-> "uuid", default |-> None]
     ELSE [type |-> "text", default |-> None]]

\* modelSchema.options.timestamps: unset, true, or an object naming createdAt
TimestampOptions ==
  { None,
    Some([createdAt |-> None, updatedAt |-> None]),
    Some([createdAt |-> Some("created"), updatedAt |-> None]) }

\* modelSchema.options.versions: unset, true, or an object naming the key
VersionOptions == {None, Some([key |-> None]), Some([key |-> Some("rev")])}

\* modelSchema as handed to addModel; valid says that validate_model_schema accepts it
ModelSchemas ==
  [valid : BOOLEAN, table_name : {None, Some("1bad")},
   fields : {DeclaredFields}, timestamps : TimestampOptions, versions : VersionOptions]

\* x || d
OrDefault(x, d) == IF x = None THEN d ELSE x[1]

\* fields[k] = v
Assign(fields, k, v) == [f \in DOMAIN fields \cup {k} |-> IF f = k THEN v ELSE fields[f]]

TimestampField == [type |-> "timestamp", default |-> Some("toTimestamp(now())")]
VersionField == [type |-> "timeuuid", default |-> Some("now()")]

\* addModel on options.timestamps
WithTimestamps(schema) ==
  IF schema.timestamps = None THEN schema
  ELSE LET createdAt == OrDefault(schema.timestamps[1].createdAt, "createdAt")
           updatedAt == OrDefault(schema.timestamps[1].updatedAt, "updatedAt")
       IN  [schema EXCEPT
              !.timestamps = Some([createdAt |-> Some(createdAt), updatedAt |-> Some(updatedAt)]),
              !.fields = Assign(Assign(@, createdAt, TimestampField), updatedAt, TimestampField)]

\* mutant: the version field is added whether or not versions are requested
WithVersionsAlways(schema) ==
  LET key == IF schema.versions = None THEN "__v" ELSE OrDefault(schema.versions[1].key, "__v")
  IN  [schema EXCEPT !.fields = Assign(@, key, VersionField)]

\* addModel on options.versions
WithVersions(schema) ==
  IF schema.versions = None THEN schema
  ELSE LET key == OrDefault(schema.versions[1].key, "__v")
       IN  [schema EXCEPT !.versions = Some([key |-> Some(key)]),
                          !.fields = Assign(@, key, VersionField)]

\* mutant: the table name is not validated
generate_modelUnchecked(baseProperties) ==
  [threw |-> None,
   model |-> Some([name |-> baseProperties.name,
                   table_name |-> OrDefault(baseProperties.schema.table_name, baseProperties.name),
                   schema |-> baseProperties.schema])]

\* _generate_model: Model._set_properties(baseProperties) throws on an invalid table name
generate_model(baseProperties) ==
  LET tableName == OrDefault(baseProperties.schema.table_name, baseProperties.name)
  IN  IF ~validate_table_name(tableName)
      THEN [threw |-> Some("model.tablecreation.invalidname"), model |-> None]
      ELSE [threw |-> None,
            model |-> Some([name |-> baseProperties.name, table_name |-> tableName,
                            schema |-> baseProperties.schema])]

Raised(err, ms) == [outcome |-> "raised", err |-> err, models |-> ms, returned |-> None]

\* addModel(modelName, modelSchema) on the registry ms
addModel(ms, modelName, modelSchema) ==
  IF InvalidModelName(modelName) THEN Raised("model.validator.invalidschema", ms)
  ELSE IF ~modelSchema.valid THEN Raised("model.validator.invalidschema", ms)
  ELSE LET generated == generate_model([name |-> modelName.value,
                                        schema |-> WithVersions(WithTimestamps(modelSchema))])
       IN  IF generated.threw # None THEN Raised(generated.threw[1], ms)
           ELSE [outcome |-> "returned", err |-> NoErr,
                 models |-> [ms EXCEPT ![modelName.value] = generated.model],
                 returned |-> generated.model]

\* getModel(modelName): this._models[modelName] || null
getModel(ms, modelName) == IF modelName \in DOMAIN ms THEN ms[modelName] ELSE None

\* the clients among baseProperties: those the registry holds when addModel is called
baseHandles(registry) ==
  [cql |-> registry.client, define_connection |-> registry.define_connection,
   esclient |-> registry.esclient, gremlin_client |-> registry.gremlin_client]

AddModel ==
  /\ \E modelName \in NameInputs, modelSchema \in ModelSchemas :
       LET r == addModel(models, modelName, modelSchema)
       IN  /\ models' = r.models
           /\ added' = Some([name |-> modelName, schema |-> modelSchema,
                             outcome |-> r.outcome, err |-> r.err, returned |-> r.returned])
           /\ handles' = IF r.outcome = "returned"
                            THEN [handles EXCEPT !.model[modelName.value] =
                                                   Some(baseHandles(handles.registry))]
                            ELSE handles
  /\ UNCHANGED <<ormOptions, prov, provOps, provReply, stageCb, initCb, syncVars, ready, queryVars>>

InitRegistry == InitOps

NextRegistry == AddModel

SpecRegistry == InitRegistry /\ [][NextRegistry]_vars

\* ------------------------------------------- the registry across Apollo.init
\* an Apollo instance without declared types, functions and aggregates
InitHandles ==
  /\ InitApollo
  /\ ormOptions.udts = None /\ ormOptions.udfs = None /\ ormOptions.udas = None

\* addModel('users', modelSchema) with a schema that validate_model_schema accepts
RegisterModel ==
  /\ \E modelName \in {[type |-> "string", value |-> "users"]},
        modelSchema \in {ms \in ModelSchemas :
                           /\ ms.valid /\ ms.table_name = None
                           /\ ms.timestamps = None /\ ms.versions = None} :
       LET r == addModel(models, modelName, modelSchema)
       IN  /\ models' = r.models
           /\ added' = Some([name |-> modelName, schema |-> modelSchema,
                             outcome |-> r.outcome, err |-> r.err, returned |-> r.returned])
           /\ handles' = IF r.outcome = "returned"
                           THEN [handles EXCEPT !.model[modelName.value] =
                                                  Some(baseHandles(handles.registry))]
                           ELSE handles
  /\ UNCHANGED <<ormOptions, prov, provOps, provReply, stageCb, initCb, syncVars, ready, queryVars>>

\* init(callback) called again on the instance, whatever the earlier calls have come to: the
\* stages run again, next to those of the calls still under way
ApolloInitAgain ==
  /\ prov[1].stage # "idle"
  /\ Len(prov) < MaxInits
  /\ Apply(Len(prov) + 1, Enter(ormOptions, "keyspace", FALSE))
  /\ UNCHANGED provReply
  /\ UNCHANGED <<ormOptions, models, added, syncVars, ready, queryVars>>
  /\ handles' = ProvisionedHandles

\* create_es_client() called on the instance directly
CreateEsClient ==
  /\ handles.direct < MaxDirect
  /\ handles' = [create_es_client(handles) EXCEPT !.direct = handles.direct + 1]
  /\ UNCHANGED <<ormOptions, prov, provOps, provReply, stageCb, initCb, models, added>>
  /\ UNCHANGED <<syncVars, ready, queryVars>>

\* create_gremlin_client() called on the instance directly
CreateGremlinClient ==
  /\ handles.direct < MaxDirect
  /\ handles' = [create_gremlin_client(handles) EXCEPT !.direct = handles.direct + 1]
  /\ UNCHANGED <<ormOptions, prov, provOps, provReply, stageCb, initCb, models, added>>
  /\ UNCHANGED <<syncVars, ready, queryVars>>

NextHandles ==
  \/ ApolloInit
  \/ ApolloInitAgain
  \/ ChainHandler
  \/ CreateEsClient
  \/ CreateGremlinClient
  \/ GetKeyspaceCallback
  \/ KeyspaceDdlCallback
  \/ ShutdownCallback
  \/ AssertEsIndexCallback
  \/ AssertGremlinGraphCallback
  \/ RegisterModel

SpecHandles == InitHandles /\ [][NextHandles]_vars

\* =================================================================== claims
Started(op) == op \in Range(ops)
LiveOk == dbReply # None /\ dbReply[1].err = NoErr
TableAbsent == LiveOk /\ dbReply[1].dbSchema = None
TableExists == LiveOk /\ dbReply[1].dbSchema # None
LiveSchema == dbReply[1].dbSchema[1]
\* both schemas normalize, so that they are compared
Comparable ==
  TableExists /\ ~NormalizeFails(properties.schema) /\ ~NormalizeFails(LiveSchema)
NormalizedDiffer ==
  normalize_model_schema(properties.schema) # normalize_model_schema(LiveSchema)
NormalizedKeyDiffers ==
  normalize_model_schema(properties.schema).key # normalize_model_schema(LiveSchema).key
NormalizedOrderDiffers ==
  normalize_model_schema(properties.schema).clustering_order
    # normalize_model_schema(LiveSchema).clustering_order
DDLStarted == Range(ops) \cap (TableOps \cup TaskNames)
Failure(e) == [err |-> e, result |-> Undefined]
Success(r) == [err |-> NoErr, result |-> r]
FailedTasks == {t \in TaskNames : tasks[t] = "failed"}

\* C1: under NODE_ENV = production, whatever migration and
\* dropTableOnSchemaChange are, neither init_alter_operations nor
\* drop_recreate_table is ever started; create_table is started only for an
\* absent table, and a sync that got a live-schema reply and did not throw ends
\* in create, no-op (result false) or one of the two rejections.
C1_ProductionFloor ==
  nodeEnv = "production" =>
    /\ ~Started("init_alter_operations")
    /\ ~Started("drop_recreate_table")
    /\ Started("create_table") => TableAbsent
    /\ (LiveOk /\ pc # "thrown" /\ ~Started("create_table")) =>
         /\ syncCb # <<>>
         /\ syncCb[1] \in {Success("false"), Failure("schemanotfound"), Failure("schemamismatch")}

C1_Witness ==
  /\ nodeEnv = "production"
  /\ properties.migration = Some("drop")
  /\ properties.dropTableOnSchemaChange
  /\ Comparable /\ NormalizedDiffer
  /\ syncCb = <<Failure("schemamismatch")>>

\* C2: when the table exists, the normalized schemas differ and the effective
\* policy is neither alter nor drop, the only operation started is the
\* introspection and the callbacks get the schema-mismatch error.
C2_MigrationSuspended ==
  (Comparable /\ NormalizedDiffer /\ migration \notin {"alter", "drop"}) =>
    /\ ops = <<"get_table_schema">>
    /\ syncCb = <<Failure("schemamismatch")>>
    /\ userCb = <<Failure("schemamismatch")>>

C2_Witness ==
  /\ nodeEnv = "development"
  /\ migration = "bogus"
  /\ Comparable /\ NormalizedDiffer
  /\ userCb = <<Failure("schemamismatch")>>

\* C3: when the table exists and the normalized schemas are equal, no table,
\* index or view operation is started and the sync callback gets (null, false),
\* under every policy and environment.
C3_NoOpIdempotent ==
  (Comparable /\ ~NormalizedDiffer) =>
    /\ DDLStarted = {}
    /\ syncCb = <<Success("false")>>
    /\ (userCb # <<>> /\ userCb[1].err = NoErr) => userCb = <<Success("false")>>

C3_Witness ==
  /\ nodeEnv = "development"
  /\ migration = "drop"
  /\ Comparable /\ ~NormalizedDiffer
  /\ properties.schema.fields # LiveSchema.fields
  /\ userCb = <<Success("false")>>

\* C4: when introspection reports no table, create_table is the operation
\* started next, under every policy and environment, unless createTable is
\* false: then nothing is started and the callback gets schema-not-found.
C4_AbsentTable ==
  TableAbsent =>
    IF properties.createTable = Some(FALSE)
      THEN /\ ops = <<"get_table_schema">>
           /\ syncCb = <<Failure("schemanotfound")>>
      ELSE /\ Len(ops) >= 2 /\ ops[2] = "create_table"
           /\ ~Started("init_alter_operations")
           /\ ~Started("drop_recreate_table")

C4_Witness ==
  /\ nodeEnv = "production"
  /\ properties.migration = Some("safe")
  /\ properties.createTable = None
  /\ TableAbsent
  /\ Started("create_table")

\* C5: under the effective policy alter, init_alter_operations is started only
\* when normalized key and normalized clustering order are both equal; when
\* either differs drop_recreate_table is started at once and the alter routine
\* never runs.
C5_KeyChangeForcesRecreate ==
  /\ Started("init_alter_operations") =>
       /\ migration = "alter" /\ Comparable
       /\ ~NormalizedKeyDiffers /\ ~NormalizedOrderDiffers
  /\ (Comparable /\ NormalizedDiffer /\ migration = "alter") =>
       IF NormalizedKeyDiffers \/ NormalizedOrderDiffers
         THEN /\ ops[2] = "drop_recreate_table"
              /\ ~Started("init_alter_operations")
         ELSE ops[2] = "init_alter_operations"

C5_Witness ==
  /\ migration = "alter"
  /\ Comparable
  /\ ~NormalizedKeyDiffers /\ NormalizedOrderDiffers
  /\ Started("drop_recreate_table")

\* C6: when init_alter_operations reports alter_impossible, drop_recreate_table
\* is started next and no callback ever gets alter_impossible; when it reports
\* another error the callbacks get that error and drop_recreate_table is not
\* started.
C6_AlterImpossibleFallback ==
  /\ \A i \in DOMAIN syncCb : syncCb[i].err # "alter_impossible"
  /\ \A i \in DOMAIN userCb : userCb[i].err # "alter_impossible"
  /\ replyErr["init_alter_operations"] = "alter_impossible" =>
       /\ Len(ops) >= 3
       /\ ops[2] = "init_alter_operations" /\ ops[3] = "drop_recreate_table"
  /\ replyErr["init_alter_operations"] = ErrorOf("init_alter_operations") =>
       /\ syncCb = <<Failure(ErrorOf("init_alter_operations"))>>
       /\ userCb = <<Failure(ErrorOf("init_alter_operations"))>>
       /\ ~Started("drop_recreate_table")

C6_Witness ==
  /\ replyErr["init_alter_operations"] = "alter_impossible"
  /\ replyErr["drop_recreate_table"] = NoErr
  /\ userCb = <<Success("true")>>

\* C7: outside production the policy _sync_model_definition works with is the
\* explicit migration setting when there is one, else drop when
\* dropTableOnSchemaChange is set, else safe.
C7_PolicyResolution ==
  (syncs > 0 /\ nodeEnv # "production") =>
    migration = IF properties.migration # None THEN properties.migration[1]
                ELSE IF properties.dropTableOnSchemaChange THEN "drop"
                ELSE "safe"

C7_Witness ==
  /\ nodeEnv = "development"
  /\ properties.migration = Some("safe")
  /\ properties.dropTableOnSchemaChange
  /\ migration = "safe"
  /\ Comparable /\ NormalizedDiffer
  /\ syncCb = <<Failure("schemamismatch")>>

\* C8: an index, custom-index or view operation is started only after
\* create_table or drop_recreate_table was started and reported success; when
\* the table operation reports an error none is started and that error is the
\* result of the sync; without a table operation none is started.
C8_DependentsAfterTable ==
  /\ \A i \in DOMAIN ops :
       ops[i] \in TaskNames =>
         \E j \in 1..(i - 1) :
           /\ ops[j] \in {"create_table", "drop_recreate_table"}
           /\ replyErr[ops[j]] = NoErr
  /\ \A o \in {"create_table", "drop_recreate_table"} :
       replyErr[o] \notin {"none", NoErr} =>
         /\ Range(ops) \cap TaskNames = {}
         /\ tasks = NoTasks
         /\ syncCb = <<Failure(replyErr[o])>>
         /\ userCb = <<Failure(replyErr[o])>>
  /\ (~Started("create_table") /\ ~Started("drop_recreate_table")) => tasks = NoTasks

C8_Witness ==
  /\ replyErr["drop_recreate_table"] = NoErr
  /\ \A t \in TaskNames : Started(t)
  /\ \E t \in TaskNames : tasks[t] = "pending"

\* what the schema declares, by the operation that creates it
DeclaredDependents(schema) ==
  {t \in TaskNames :
     \/ t = "create_indexes" /\ schema.indexes # None
     \/ t = "create_custom_indexes" /\ schema.custom_indexes # None
     \/ t = "create_custom_index" /\ schema.custom_index # None
     \/ t = "create_mviews" /\ schema.materialized_views # None}

\* C9: after create_table or drop_recreate_table succeeded, the dependent
\* operations started are those the schema declares, each once; a schema that
\* declares none gets no dependent operation and the sync succeeds with true.
C9_DeclaredDependentsOnly ==
  (replyErr["create_table"] = NoErr \/ replyErr["drop_recreate_table"] = NoErr) =>
    /\ {t \in TaskNames : tasks[t] # "none"} = DeclaredDependents(properties.schema)
    /\ \A t \in TaskNames :
         Cardinality({i \in DOMAIN ops : ops[i] = t})
           = IF t \in DeclaredDependents(properties.schema) THEN 1 ELSE 0
    /\ (DeclaredDependents(properties.schema) = {} /\ promise.handled) =>
         syncCb = <<Success("true")>>

C9_Witness ==
  /\ TableAbsent
  /\ DeclaredDependents(properties.schema) = {}
  /\ replyErr["create_table"] = NoErr
  /\ Range(ops) \cap TaskNames = {}
  /\ syncCb = <<Success("true")>>

\* C10 as claimed: when a dependent task has failed, the sync callback is
\* invoked only once every task has settled, once, with the errors of all the
\* failed tasks.
C10_AsClaimed ==
  (syncCb # <<>> /\ FailedTasks # {}) =>
    /\ \A t \in TaskNames : tasks[t] # "pending"
    /\ Len(syncCb) = 1
    /\ {syncCb[1].err} = {ErrorOf(t) : t \in FailedTasks}

C10_Inv ==
  /\ FailedTasks # {} =>
       /\ promise.state = "rejected"
       /\ promise.err \in {ErrorOf(t) : t \in FailedTasks}
  /\ promise.state = "rejected" =>
       IF promise.handled
         THEN syncCb = <<Failure(promise.err)>> /\ userCb = <<Failure(promise.err)>>
         ELSE syncCb = <<>> /\ userCb = <<>>
  /\ created = {t \in TaskNames : tasks[t] = "ok"}
  /\ promise.state = "rejected" => ops[Len(ops)] \in TaskNames
  /\ (\E t \in TaskNames : tasks[t] = "pending") => ENABLED TaskSettle

\* C10, amended: as soon as one dependent task fails the sync callback is
\* invoked, once, with the error of that first failed task alone, while
\* siblings may still be pending; the siblings are not cancelled and go on to
\* settle, their later errors are dropped, what was created stays and no
\* further operation is started.
C10_FirstFailureOnly ==
  /\ []C10_Inv
  /\ [][(promise.state = "rejected" /\ promise'.state = "rejected")
          => promise'.err = promise.err /\ Len(syncCb') <= 1]_vars

C10_Witness ==
  /\ promise.state = "rejected" /\ promise.handled
  /\ Cardinality(FailedTasks) = 2
  /\ created # {}
  /\ \A t \in TaskNames : tasks[t] # "pending"
  /\ syncCb = <<Failure(promise.err)>>

\* the view names of a materialized_views entry
ViewsOf(mv) == IF mv = None THEN {} ELSE mv[1]

\* the views created by the running sync: those drop_recreate_table has recreated from
\* its views argument, and those create_mviews has created, the argument of
\* createViewsAsync being modelSchema.materialized_views
ViewsCreated ==
  (IF replyErr["drop_recreate_table"] = NoErr
     THEN drop_recreate_table(recreateViews) ELSE {})
    \cup (IF "create_mviews" \in created
            THEN ViewsOf(properties.schema.materialized_views) ELSE {})

DropRecreateSucceeded ==
  Started("drop_recreate_table") /\ syncCb = <<Success("true")>>

\* C11: the materialized views of the live table are collected from the live
\* schema when drop_recreate_table is started, before the drop, and handed to it;
\* after a sync that dropped and recreated the table has succeeded, every view
\* of the live table has been created again.
C11_ViewsPreserved ==
  /\ Started("drop_recreate_table") =>
       recreateViews = normalize_model_schema(LiveSchema).materialized_views
  /\ replyErr["drop_recreate_table"] = NoErr =>
       ViewsOf(LiveSchema.materialized_views) \subseteq ViewsCreated
  /\ DropRecreateSucceeded =>
       ViewsOf(LiveSchema.materialized_views) \subseteq ViewsCreated

\* the live table had a view that the declared schema does not declare; the table was
\* dropped and recreated and the sync succeeded
C11_Witness ==
  /\ DropRecreateSucceeded
  /\ LiveSchema.materialized_views = Some({"view1"})
  /\ properties.schema.materialized_views = None
  /\ recreateViews = Some({"view1"})
  /\ ViewsCreated = {"view1"}

\* C12: a model starts not ready, and no step of init, of syncDB (succeeding
\* or failing) or of a table-scoped operation (succeeding or failing) takes
\* readiness away once is_table_ready() is true.
C12_ReadinessMonotonic ==
  /\ ~ready
  /\ [][ready => ready']_vars

C12_Witness ==
  /\ ready
  /\ userCb # <<>> /\ userCb[1].err # NoErr
  /\ tableOp.phase = "done" /\ ~tableOp.init
  /\ tableOp.outcome = <<Deliver(TRUE, OpError(tableOp.kind, "dberror"))>>

\* the errors the stages of the running syncDB have reported
StageErrors ==
  ({syncCb[i].err : i \in DOMAIN syncCb} \cup {replyErr[o] : o \in SinkOps}) \ {NoErr, "none"}

\* table sync, search-index sync and graph sync have all succeeded; a sink
\* without client or mapping has nothing to sync
AllStagesSucceeded ==
  /\ Len(syncCb) = 1 /\ syncCb[1].err = NoErr
  /\ \A o \in {"assert_index", "put_mapping"} :
       replyErr[o] = IF properties.esclient /\ properties.schema_es_index_mapping
                       THEN NoErr ELSE "none"
  /\ \A o \in {"assert_graph", "put_graph_mapping"} :
       replyErr[o] = IF properties.gremlin_client /\ properties.schema_graph_mapping
                       THEN NoErr ELSE "none"

\* C13: a step of syncDB changes readiness only to mark the model ready, and
\* only when the table sync, the search-index sync and the graph sync have all
\* succeeded, in the step that delivers the result; a step of syncDB that
\* delivers an error delivers the error of the failed stage and leaves
\* readiness as it was.
C13_ReadyAfterAllStages ==
  /\ []((userCb # <<>> /\ userCb[1].err = NoErr) => (ready /\ AllStagesSucceeded))
  /\ [][/\ ((pc' # pc \/ userCb' # userCb) /\ ready' # ready) =>
             /\ ready'
             /\ AllStagesSucceeded'
             /\ userCb' = <<Success(result')>>
        /\ (userCb' # userCb /\ userCb' # <<>> /\ userCb'[1].err # NoErr) =>
             /\ ready' = ready
             /\ Len(userCb') = 1
             /\ StageErrors' = {userCb'[1].err}]_vars

C13_Witness ==
  /\ ready
  /\ tableOp.kind = "none"
  /\ userCb = <<Success("true")>>
  /\ \A o \in SinkOps : replyErr[o] = NoErr

C14_Inv ==
  /\ tableOp.passed => (tableOp.readyAtPass /\ ready)
  /\ tableOp.phase = "executing" => tableOp.passed
  /\ (tableOp.outcome # <<>> /\ ~tableOp.passed /\ tableOp.built) => tableOp.init

\* C14: a table-scoped operation (find, update, delete, save, truncate,
\* stream, eachRow) hands its statement to the driver only while
\* is_table_ready() is true; called on a model that is not ready it runs init
\* first, hands the statement over only if init reported no error and
\* otherwise delivers the error of init without executing the statement;
\* called on a ready model it does not run init.
C14_ReadinessGate ==
  /\ []C14_Inv
  /\ [][(nops' = nops + 1 /\ tableOp'.built) =>
          IF ready
            THEN ~tableOp'.init /\ tableOp'.passed /\ tableOp'.outcome = <<>>
            ELSE /\ tableOp'.init
                 /\ ready' = init(ready).ready
                 /\ tableOp'.passed = (init(ready).err = NoErr)
                 /\ init(ready).err # NoErr =>
                      tableOp'.outcome = <<Deliver(TRUE, init(ready).err)>>]_vars

C14_Witness ==
  /\ tableOp.kind = "stream"
  /\ tableOp.init /\ tableOp.passed /\ tableOp.readyAtPass
  /\ tableOp.phase = "executing"
  /\ syncs = 0

\* C15 as claimed: the statement of a table-scoped operation is handed to the
\* driver only after a schema synchronization has been started for the model.
C15_AsClaimed ==
  tableOp.passed => Started("get_table_schema")

\* C15, amended: a table-scoped operation on a model that is not ready runs
\* init, which only marks the model ready: the operation starts no
\* introspection and no migration decision, and its statement is handed to
\* the driver although no syncDB was ever called.
C15_InitDoesNotSync ==
  /\ []((tableOp.passed /\ syncs = 0) =>
          /\ ready
          /\ ops = <<>> /\ dbReply = None /\ migration = Undefined /\ pc = "idle")
  /\ [][nops' = nops + 1 =>
          /\ UNCHANGED <<syncs, pc, migration, ops, dbReply, replyErr, syncCb, userCb>>
          /\ (~ready /\ tableOp'.built) => (ready' /\ tableOp'.init /\ tableOp'.passed)]_vars

C15_Witness ==
  /\ tableOp.kind = "find"
  /\ tableOp.init /\ tableOp.passed
  /\ syncs = 0 /\ dbReply = None
  /\ tableOp.outcome = <<Deliver(TRUE, NoErr)>>

Built(fn) == stmt.fn = fn /\ stmt.out # None

\* the clauses that are present, in the order given
Present(clauses) == SelectSeq(clauses, LAMBDA c : c # "")

\* C16: whatever clauses are present, get_find_query returns SELECT, DISTINCT
\* if asked, the projection and FROM the view or else the table, then the
\* present ones of WHERE, ORDER BY, GROUP BY, LIMIT and ALLOW FILTERING in
\* that order, each after one space, then ';'; the parameters are those of the
\* where clause in its order, one for each predicate, and no other.
C16_FindClauseOrder ==
  Built("get_find_query") =>
    LET a == stmt.args
        out == stmt.out[1]
        head == "SELECT " \o (IF a.distinct THEN "DISTINCT " ELSE "") \o a.select
                  \o " FROM \"" \o (IF a.materialized_view = None THEN a.table_name
                                    ELSE a.materialized_view[1]) \o "\""
    IN /\ out.query =
            Join(Present(<< head, get_where_clause(a.queryObject).query, a.orderby, a.groupby,
                            a.limit,
                            IF a.allow_filtering THEN "ALLOW FILTERING" ELSE "" >>), " ") \o ";"
       /\ out.params = get_where_clause(a.queryObject).params
       /\ Len(out.params) = Len(a.queryObject)

C16_Witness ==
  /\ Built("get_find_query")
  /\ stmt.out[1] =
       [query |-> "SELECT * FROM \"events\" WHERE \"id\" = ? AND \"ts\" = ? ORDER BY \"ts\" DESC GROUP BY \"id\" LIMIT 10 ALLOW FILTERING;",
        params |-> <<5, 7>>]

\* C17: the parameters of an update statement are the ttl (only when
\* options.ttl is a number), then the parameters of the SET clause, then those
\* of the where clause, then those of the IF condition; the text has
\* USING TTL ? before SET and the IF clause after the where clause.
C17_UpdateParamOrder ==
  Built("update") =>
    LET a == stmt.args
        out == stmt.out[1]
        where == get_where_clause(a.queryObject)
        ifClause == IF a.conditions = None THEN [query |-> "", params |-> <<>>]
                    ELSE a.conditions[1]
    IN /\ out.params =
            (IF isNumber(a.ttl) THEN <<a.ttl[1].value>> ELSE <<>>)
              \o a.update.queryParams \o where.params \o ifClause.params
       /\ out.query =
            "UPDATE \"" \o a.table_name \o "\""
              \o (IF isNumber(a.ttl) THEN " USING TTL ?" ELSE "")
              \o " SET " \o Join(a.update.updateClauses, ", ")
              \o " " \o where.query
              \o (IF ifClause.query # "" THEN " " \o ifClause.query
                  ELSE IF a.conditions = None /\ a.if_exists THEN " IF EXISTS" ELSE "")
              \o ";"

C17_Witness ==
  /\ Built("update")
  /\ stmt.out[1] =
       [query |-> "UPDATE \"events\" USING TTL ? SET \"name\"=?, \"age\"=? WHERE \"id\" = ? IF \"name\" = ?;",
        params |-> <<300, 11, 12, 5, 21>>]

\* C18: the parameters of an insert statement are the column values followed
\* by the ttl (only when options.ttl is a number); the text is INSERT INTO the
\* table, the columns, VALUES and the placeholders, then IF NOT EXISTS when
\* if_not_exist is set, then USING TTL ? when there is a ttl, then ';'.
C18_SaveParamOrder ==
  Built("save") =>
    LET a == stmt.args
        out == stmt.out[1]
    IN /\ out.params =
            a.save.queryParams \o (IF isNumber(a.ttl) THEN <<a.ttl[1].value>> ELSE <<>>)
       /\ out.query =
            "INSERT INTO \"" \o a.table_name \o "\" ( " \o Join(a.save.identifiers, " , ")
              \o " ) VALUES ( " \o Join(a.save.values, " , ") \o " )"
              \o (IF a.if_not_exist THEN " IF NOT EXISTS" ELSE "")
              \o (IF isNumber(a.ttl) THEN " USING TTL ?" ELSE "")
              \o ";"

C18_Witness ==
  /\ Built("save")
  /\ stmt.out[1] =
       [query |-> "INSERT INTO \"events\" ( \"id\" , \"name\" ) VALUES ( ? , ? ) IF NOT EXISTS USING TTL ?;",
        params |-> <<5, 11, 300>>]

\* C19: the delete statement is DELETE FROM the quoted table, a space, the
\* where clause and ';', its parameters are those of the where clause in
\* order; for the predicates {id: 5} on the table events it is
\* DELETE FROM "events" WHERE "id" = ?; with the parameters [5].
C19_DeleteStatement ==
  Built("delete") =>
    LET a == stmt.args
        out == stmt.out[1]
        where == get_where_clause(a.queryObject)
    IN /\ out.query = "DELETE FROM \"" \o a.table_name \o "\" " \o where.query \o ";"
       /\ out.params = where.params
       /\ (a.table_name = "events" /\ a.queryObject = << [col |-> "id", val |-> 5] >>) =>
            out = [query |-> "DELETE FROM \"events\" WHERE \"id\" = ?;", params |-> <<5>>]

C19_Witness ==
  /\ Built("delete")
  /\ stmt.args = [table_name |-> "events", queryObject |-> << [col |-> "id", val |-> 5] >>]
  /\ stmt.out[1].params = <<5>>

Falsy == {"false", "undefined", "null", "0"}

Vetoed(o) ==
  /\ o.phase = "done"
  /\ ~o.built /\ ~o.passed /\ ~o.afterCalled
  /\ o.outcome = <<Deliver(o.cbGiven, OpError(o.kind, "before.error"))>>

\* C20 as claimed: a before hook of save, update or delete that returns any
\* falsy value aborts the operation.
C20_AsClaimed ==
  (tableOp.kind \in Mutations /\ tableOp.before \in Falsy) => Vetoed(tableOp)

\* C20, amended: a declared before hook of save, update or delete aborts the
\* operation exactly when it returns false: then no statement is built or
\* handed to the driver, the after hook is not called and the error
\* model.<operation>.before.error is delivered (to the callback, thrown
\* without one); returning undefined, null or 0 does not abort.
C20_FalseVetoes ==
  tableOp.kind \in Mutations =>
    /\ tableOp.before = "false" => Vetoed(tableOp)
    /\ tableOp.before # "false" =>
         /\ tableOp.buildFailed \/ (tableOp.built /\ tableOp.passed)
         /\ \A i \in DOMAIN tableOp.outcome :
              tableOp.outcome[i].err # OpError(tableOp.kind, "before.error")

C20_Witness ==
  /\ tableOp.kind = "save" /\ tableOp.before = "false" /\ ~tableOp.cbGiven
  /\ tableOp.outcome = <<[how |-> "throw", err |-> "model.save.before.error"]>>
  /\ ~tableOp.passed

DriverFailed(o) == o.reply \notin {"none", NoErr}

\* C21: for save, update and delete the after hook is called only after the
\* driver reported success for the statement; when the hook returns false the
\* error model.<operation>.after.error is delivered and the one statement
\* that was executed stays the only one handed to the driver; when the driver
\* reported a failure the after hook is not called and the only thing
\* delivered is model.<operation>.dberror.
C21_AfterHookOrdering ==
  tableOp.kind \in Mutations =>
    /\ tableOp.afterCalled =>
         tableOp.passed /\ tableOp.reply = NoErr /\ tableOp.phase = "done"
    /\ tableOp.phase = "executing" => (~tableOp.afterCalled /\ tableOp.after = "uncalled")
    /\ (tableOp.afterCalled /\ tableOp.after = "false") =>
         /\ tableOp.outcome = <<Deliver(tableOp.cbGiven, OpError(tableOp.kind, "after.error"))>>
         /\ tableOp.statements = 1
    /\ DriverFailed(tableOp) =>
         /\ ~tableOp.afterCalled /\ tableOp.after = "uncalled"
         /\ tableOp.outcome = <<Deliver(tableOp.cbGiven, OpError(tableOp.kind, "dberror"))>>
    /\ tableOp.statements <= 1

C21_Witness ==
  /\ tableOp.kind = "update"
  /\ tableOp.afterCalled /\ tableOp.after = "false"
  /\ tableOp.reply = NoErr /\ tableOp.statements = 1
  /\ tableOp.outcome = <<[how |-> "callback", err |-> "model.update.after.error"]>>

\* C22: when the parser rejects the query object or the values of a find, an
\* update or a delete, no statement is handed to the driver and the error is
\* delivered once: to the callback when there is one, else by a throw from
\* the call.
C22_ValidationErrors ==
  /\ (tableOp.kind \in {"find", "update", "delete"} /\ tableOp.buildFailed) =>
       /\ ~tableOp.built /\ ~tableOp.passed /\ tableOp.statements = 0
       /\ tableOp.phase = "done" /\ tableOp.reply = "none"
       /\ tableOp.outcome = <<Deliver(tableOp.cbGiven, ValidationError)>>
  /\ tableOp.passed => ~tableOp.buildFailed

C22_Witness ==
  /\ tableOp.kind = "update" /\ tableOp.buildFailed /\ ~tableOp.cbGiven
  /\ tableOp.before = "true"
  /\ tableOp.outcome = <<[how |-> "throw", err |-> ValidationError]>>
  /\ tableOp.statements = 0

\* the kind tag of the database error of an operation
DbErrorTag(kind) == IF kind \in Mutations THEN kind ELSE "find"

\* C23: a failure the driver reports to find, findOne, stream, eachRow,
\* update, delete or save reaches the caller as model.find.dberror,
\* model.update.dberror, model.delete.dberror or model.save.dberror, by the
\* operation; the error of the driver itself is never what is delivered.
C23_DbErrorWrapped ==
  (tableOp.kind \in {"find", "findOne", "stream", "eachRow", "update", "delete", "save"}
     /\ DriverFailed(tableOp)) =>
    /\ tableOp.outcome =
         <<Deliver(tableOp.cbGiven, "model." \o DbErrorTag(tableOp.kind) \o ".dberror")>>
    /\ \A i \in DOMAIN tableOp.outcome : tableOp.outcome[i].err # tableOp.reply

C23_Witness ==
  /\ tableOp.kind = "stream"
  /\ tableOp.reply = ErrorOf("execute_query")
  /\ tableOp.outcome = <<[how |-> "callback", err |-> "model.find.dberror"]>>

\* ---- C24
StagesBefore(s) == {Stages[i] : i \in 1..(StageIndex(s) - 1)}
Reported(s, err) == \E j \in DOMAIN stageCb : stageCb[j] = StageCallback(s, err)

\* C24: init runs the keyspace assertion, then the types, the functions, the aggregates and
\* the search-index/graph assertions; an operation of a stage is started only after every
\* earlier stage has reported success, and an error reported by a stage is what the callback
\* of init receives, no operation of a later stage being started (the operations being in
\* the order of the stages, the last one started is of the latest stage).
C24_ProvisioningOrder ==
  /\ \A i \in DOMAIN provOps :
       \A t \in StagesBefore(provOps[i].stage) : Reported(t, NoErr)
  /\ \A i \in 1..(Len(provOps) - 1) :
       StageIndex(provOps[i].stage) <= StageIndex(provOps[i + 1].stage)
  /\ \A j \in DOMAIN stageCb :
       stageCb[j].err # NoErr =>
         /\ initCb = <<InitCallback(stageCb[j].err)>>
         /\ provOps # <<>> =>
              StageIndex(provOps[Len(provOps)].stage) <= StageIndex(stageCb[j].stage)

\* every stage had operations and init reported success
C24_Witness ==
  /\ prov[1].stage = "done"
  /\ {provOps[i].stage : i \in DOMAIN provOps} = Range(Stages)
  /\ initCb = <<InitCallback(NoErr)>>

\* ---- C25
SeriesStages == {"udt", "udf", "uda"}

\* the stage the items of prov belong to: the running stage, or the stage init ended in
ItemsStage ==
  CASE prov[1].stage = "uncaught" -> "udt"
    [] prov[1].stage = "done" /\ stageCb # <<>> -> stageCb[Len(stageCb)].stage
    [] OTHER -> prov[1].stage

\* C25: within the stage of the types, of the functions or of the aggregates the declared
\* items are processed one at a time in declared order: an item has been started only when
\* every item declared before it has ended successfully, so that no operation for item k+1
\* is started before item k has finished and no item after a failed one is processed.
C25_OneItemAtATime ==
  /\ ItemsStage \in SeriesStages =>
       \A k \in DOMAIN prov[1].items :
         prov[1].items[k] # "waiting" => \A j \in 1..(k - 1) : prov[1].items[j] = "ok"
  /\ \A i, j \in DOMAIN provOps :
       i < j /\ provOps[i].stage = provOps[j].stage /\ provOps[i].stage \in SeriesStages
         => provOps[i].item <= provOps[j].item

\* two types were asserted one after the other, then the first of two functions failed
C25_Witness ==
  /\ \E i, j \in DOMAIN provOps :
       /\ i < j
       /\ provOps[i] = ProvOp("udt", 1, "create_udt")
       /\ provOps[j] = ProvOp("udt", 2, "get_udt")
  /\ prov[1].stage = "done"
  /\ ItemsStage = "udf"
  /\ prov[1].items = <<"failed", "waiting">>
  /\ ProvOp("udf", 1, "get_udf") \in Range(provOps)

\* ---- C26
\* the call a must fail: bad model name, schema rejected, or table name rejected
MustRaise(a) ==
  \/ a.name.type # "string"
  \/ a.name.value = ""
  \/ ~a.schema.valid
  \/ /\ a.schema.table_name = None
     /\ ~validate_table_name(a.name.value)
  \/ /\ a.schema.table_name # None
     /\ ~validate_table_name(a.schema.table_name[1])

\* C26: addModel raises, and returns nothing, when the model name is empty or not a string,
\* when schema validation fails, or when the table name fails the validator; the registry is
\* then unchanged: getModel answers for every name what it answered before the call.
C26_RegistrationFailure ==
  [][(added' # added /\ MustRaise(added'[1])) =>
       /\ added'[1].outcome = "raised"
       /\ added'[1].returned = None
       /\ \A n \in ModelNames \cup {"", "42"} : getModel(models', n) = getModel(models, n)]_vars

\* a model is registered and a second registration under its name failed on the table name
C26_Witness ==
  /\ added # None
  /\ added[1].name.value = "users"
  /\ added[1].schema.valid
  /\ added[1].schema.table_name = Some("1bad")
  /\ added[1].outcome = "raised"
  /\ added[1].err = "model.tablecreation.invalidname"
  /\ getModel(models, "users") # None

\* ---- C27
FieldsOf(model) == DOMAIN model.schema.fields
CreatedAtName(sc) ==
  IF sc.timestamps[1].createdAt = None THEN "createdAt" ELSE sc.timestamps[1].createdAt[1]
UpdatedAtName(sc) ==
  IF sc.timestamps[1].updatedAt = None THEN "updatedAt" ELSE sc.timestamps[1].updatedAt[1]
VersionName(sc) == IF sc.versions[1].key = None THEN "__v" ELSE sc.versions[1].key[1]
ImplicitNames(sc) ==
  (IF sc.timestamps # None THEN {CreatedAtName(sc), UpdatedAtName(sc)} ELSE {})
    \cup (IF sc.versions # None THEN {VersionName(sc)} ELSE {})

\* C27: after addModel has returned, the registered model has the created and updated
\* timestamp fields (createdAt and updatedAt unless named otherwise, defaulting to the current
\* time) when timestamps are requested, and the version field (__v unless named otherwise,
\* defaulting to a time-ordered unique value) when versions are requested; the fields of an
\* option that is not requested are not added.
C27_ImplicitFields ==
  (added # None /\ added[1].outcome = "returned") =>
    LET sc == added[1].schema
        model == getModel(models, added[1].name.value)[1]
    IN  /\ added[1].returned = Some(model)
        /\ FieldsOf(model) = DOMAIN sc.fields \cup ImplicitNames(sc)
        /\ \A f \in DOMAIN sc.fields \ ImplicitNames(sc) :
             model.schema.fields[f] = sc.fields[f]
        /\ sc.timestamps # None =>
             /\ model.schema.fields[CreatedAtName(sc)] =
                  [type |-> "timestamp", default |-> Some("toTimestamp(now())")]
             /\ model.schema.fields[UpdatedAtName(sc)] =
                  [type |-> "timestamp", default |-> Some("toTimestamp(now())")]
        /\ sc.versions # None =>
             model.schema.fields[VersionName(sc)] =
               [type |-> "timeuuid", default |-> Some("now()")]

\* timestamps requested under their default names, versions not requested
C27_Witness ==
  /\ added # None
  /\ added[1].outcome = "returned"
  /\ added[1].schema.timestamps = Some([createdAt |-> None, updatedAt |-> None])
  /\ added[1].schema.versions = None
  /\ FieldsOf(models["users"][1]) = {"id", "name", "createdAt", "updatedAt"}

\* ---- C28
\* init has ended: no operation is pending and none will be started
InitEnded == prov[1].stage \in {"done", "uncaught"}

\* C28 as claimed: whatever the outcome of the provisioning of keyspace, types, functions and
\* aggregates, a type that exists and does not match its declaration included, init invokes
\* its callback exactly once; init raises nothing to its caller on these paths, so that it
\* never ends with the callback uninvoked.
C28_AsClaimed ==
  /\ Len(initCb) <= 1
  /\ InitEnded => Len(initCb) = 1

\* ---- C29
\* the mapping from field names to normalized field types
Mapping(names, types) ==
  [n \in Range(names) |->
     normalize_user_defined_type(types[CHOOSE i \in DOMAIN names : names[i] = n])]

\* the last reply is that of get_udt for a declared type, without error
UdtReplied == provReply # None /\ provReply[1].stage = "udt" /\ provReply[1].err = NoErr

\* the type of the last reply was taken as matching: nothing thrown, nothing created
UdtAccepted ==
  /\ prov[1].stage # "uncaught"
  /\ ProvOp("udt", provReply[1].item, "create_udt") \notin Range(provOps)

\* C29 as claimed: a type that exists is accepted, without DDL and without error, exactly when
\* its mapping from field names to field types equals the declared mapping after type
\* normalization, and a type that is absent is created.
C29_AsClaimed ==
  UdtReplied =>
    LET decl == ormOptions.udts[1][provReply[1].item]
        obj == provReply[1].obj
    IN  /\ obj = None => ProvOp("udt", provReply[1].item, "create_udt") \in Range(provOps)
        /\ obj # None =>
             (UdtAccepted <=>
                Mapping(obj[1].field_names, obj[1].field_types)
                  = Mapping(decl.keys, decl.values))

\* ---- C30
KeyspaceOps == SelectSeq(provOps, LAMBDA op : op.stage = "keyspace")
KeyspaceDdl == SelectSeq(provOps, LAMBDA op : op.op \in {"create_keyspace", "alter_keyspace"})
KeyspaceReplied == provReply # None /\ provReply[1].stage = "keyspace"

\* the replication of the live keyspace is, once normalized, the default replication
LiveIsDefault(replication) ==
  /\ replication.class = "org.apache.cassandra.locator.SimpleStrategy"
  /\ replication.replication_factor.value = DEFAULT_REPLICATION_FACTOR

\* C30: _assert_keyspace creates the keyspace when it is absent, alters it when its normalized
\* replication differs from defaultReplicationStrategy and issues no DDL when they are equal;
\* an introspection error issues no DDL and is handed to the callback; without a keyspace, or
\* with createKeyspace false, init starts no keyspace operation and goes on to the types.
C30_KeyspaceDecision ==
  /\ Len(KeyspaceDdl) <= 1
  /\ KeyspaceReplied =>
       LET err == provReply[1].err
           obj == provReply[1].obj
       IN  /\ err # NoErr => KeyspaceDdl = <<>> /\ initCb = <<InitCallback(err)>>
           /\ (err = NoErr /\ obj = None) =>
                KeyspaceDdl = <<ProvOp("keyspace", 1, "create_keyspace")>>
           /\ (err = NoErr /\ obj # None /\ ~LiveIsDefault(obj[1])) =>
                KeyspaceDdl = <<ProvOp("keyspace", 1, "alter_keyspace")>>
           /\ (err = NoErr /\ obj # None /\ LiveIsDefault(obj[1])) => KeyspaceDdl = <<>>
  /\ (~ormOptions.keyspace \/ ormOptions.createKeyspace = Some(FALSE)) =>
       /\ KeyspaceOps = <<>>
       /\ prov[1].stage # "idle" =>
            /\ stageCb # <<>>
            /\ stageCb[1] = StageCallback("keyspace", NoErr)

\* the live keyspace has another replication factor and is altered
C30_Witness ==
  /\ KeyspaceReplied
  /\ provReply[1].obj # None
  /\ provReply[1].obj[1].replication_factor.value = 3
  /\ provOps = <<ProvOp("keyspace", 1, "get_keyspace"), ProvOp("keyspace", 1, "alter_keyspace")>>

\* ---- C31
\* the last reply is that of the introspection of stage s and found the item in the database
FoundLive(s) ==
  /\ provReply # None
  /\ provReply[1].stage = s
  /\ provReply[1].err = NoErr
  /\ provReply[1].obj # None

\* the item of the last reply was created again
Recreated(s, op) == ProvOp(s, provReply[1].item, op) \in Range(provOps)

\* what init may hand to its callback: success, or the error of an operation or of
\* validate_definition
ReportedErrors ==
  {NoErr, ErrorOf("validate_definition")}
    \cup {ErrorOf(provOps[i].op) : i \in DOMAIN provOps}

\* C31: a function that exists is left untouched exactly when its language, code, normalized
\* return type, argument names in order and normalized argument types in order are those
\* declared, and an aggregate that exists exactly when one of its overloads has the state
\* function, state type, final function, initcond and input types declared; otherwise it is
\* created again, and the mismatch is no error: nothing is thrown, and init reports only
\* errors of operations.
C31_FunctionMatching ==
  /\ FoundLive("udf") =>
       /\ ~Recreated("udf", "create_udf") <=> provReply[1].obj[1] = LiveUdf
       /\ prov[1].stage # "uncaught"
       /\ \A i \in DOMAIN initCb : initCb[i].err \in ReportedErrors
  /\ FoundLive("uda") =>
       /\ ~Recreated("uda", "create_uda") <=>
            \E i \in DOMAIN provReply[1].obj[1] : provReply[1].obj[1][i] = LiveUda
       /\ prov[1].stage # "uncaught"
       /\ \A i \in DOMAIN initCb : initCb[i].err \in ReportedErrors

\* a function found with its arguments in another order was created again, then the
\* aggregate was found as the second of two overloads and left untouched
C31_Witness ==
  /\ \E i \in DOMAIN provOps : provOps[i].op = "create_udf"
  /\ FoundLive("uda")
  /\ Len(provReply[1].obj[1]) = 2
  /\ ~Recreated("uda", "create_uda")
  /\ prov[1].stage = "done"
  /\ initCb = <<InitCallback(NoErr)>>

\* ---- C32
\* the operation was started by the running syncDB
SinkStarted(o) == \E i \in DOMAIN ops : ops[i] = o

TableSyncSucceeded == Len(syncCb) = 1 /\ syncCb[1].err = NoErr

SearchEnabled == properties.esclient /\ properties.schema_es_index_mapping
GraphEnabled == properties.gremlin_client /\ properties.schema_graph_mapping

\* C32: syncDB runs the table sync, then the search-index sync, then the graph sync, each
\* only after the previous one succeeded; assert_index and put_mapping are called only with a
\* search client and a declared es_index_mapping, assert_graph and the graph put_mapping only
\* with a graph client and a declared graph_mapping; a put_mapping follows the success of its
\* assert; a disabled stage succeeds without any sink call.
C32_SinkStages ==
  /\ \A o \in {"assert_index", "put_mapping"} :
       SinkStarted(o) => SearchEnabled /\ TableSyncSucceeded
  /\ SinkStarted("put_mapping") => replyErr["assert_index"] = NoErr
  /\ \A o \in {"assert_graph", "put_graph_mapping"} :
       SinkStarted(o) =>
         /\ GraphEnabled /\ TableSyncSucceeded
         /\ SearchEnabled => replyErr["put_mapping"] = NoErr
  /\ SinkStarted("put_graph_mapping") => replyErr["assert_graph"] = NoErr
  /\ \A i, j \in DOMAIN ops :
       /\ (ops[i] \in SinkOps /\ ops[j] \notin SinkOps) => j < i
       /\ (ops[i] \in {"assert_graph", "put_graph_mapping"}
             /\ ops[j] \in {"assert_index", "put_mapping"}) => j < i
       /\ (ops[i] = "put_mapping" /\ ops[j] = "assert_index") => j < i
       /\ (ops[i] = "put_graph_mapping" /\ ops[j] = "assert_graph") => j < i
  /\ (TableSyncSucceeded /\ ~SearchEnabled /\ ~GraphEnabled) =>
       /\ \A o \in SinkOps : ~SinkStarted(o)
       /\ userCb = <<Success(result)>>
       /\ ready

\* all four sink calls were made in order after a table creation, and the sync succeeded
C32_Witness ==
  /\ Len(ops) > 4
  /\ SubSeq(ops, Len(ops) - 3, Len(ops)) =
       <<"assert_index", "put_mapping", "assert_graph", "put_graph_mapping">>
  /\ SinkStarted("create_table")
  /\ userCb = <<Success(result)>>

\* ---- C33
\* the running syncDB has ended: no collaborator call is pending and none will be made
SyncEnded == pc \in {"done", "thrown"}

\* C33 as claimed: a call of syncDB invokes its callback exactly once on every path, the
\* normalization failure of the declared or of the live schema included: the callback is
\* never invoked twice, and a call that has ended has invoked it.
C33_AsClaimed ==
  /\ Len(userCb) <= 1
  /\ SyncEnded => Len(userCb) = 1

\* ---- C34
\* a call of syncDB is in flight: started, its callback not yet invoked
SyncInFlight == syncs > 0 /\ pc \notin {"idle", "done", "thrown"}

\* the step hands the statement of a table-scoped operation to the driver
PassesStatement == tableOp.phase # "executing" /\ tableOp'.phase = "executing"

\* C34 as claimed: while a call of syncDB on the model is in flight, no statement of a
\* table-scoped operation of the model is handed to the driver; an operation issued during
\* the sync is executed only after the sync has succeeded.
C34_AsClaimed == [][PassesStatement => ~SyncInFlight]_vars

\* ---- C35
\* C35 as claimed: with createTable false neither create_table nor drop_recreate_table is
\* started, whatever the live schema and the migration policy.
C35_AsClaimed ==
  properties.createTable = Some(FALSE) =>
    ~Started("create_table") /\ ~Started("drop_recreate_table")

\* the policy asks for the existing table to be dropped and recreated
RecreateDue ==
  /\ Comparable
  /\ ~SchemasEqual(properties.schema, LiveSchema)
  /\ \/ migration = "drop"
     \/ migration = "alter" /\ ~KeysEqual(properties.schema, LiveSchema)
     \/ migration = "alter" /\ replyErr["init_alter_operations"] = "alter_impossible"

\* C35, amended: with createTable false create_table is never started, and an absent table
\* ends the sync with the schema-not-found error before any DDL; createTable is not looked
\* at when the table exists, so that drop_recreate_table is started exactly when the schemas
\* differ and the policy is drop, or alter with a changed key or an impossible alter.
C35_CreateTableFalse ==
  properties.createTable = Some(FALSE) =>
    /\ ~Started("create_table")
    /\ TableAbsent =>
         /\ ops = <<"get_table_schema">>
         /\ userCb = <<[err |-> "schemanotfound", result |-> Undefined]>>
    /\ Started("drop_recreate_table") <=> RecreateDue

\* with createTable false the table was dropped and recreated, and the sync succeeded
C35_Witness ==
  /\ properties.createTable = Some(FALSE)
  /\ Started("drop_recreate_table")
  /\ migration = "drop"
  /\ userCb = <<Success("true")>>

\* ---- C36
\* the running syncDB has started DDL on the table
SchemaChanged == \E o \in TableOps : Started(o)

\* C36 as claimed: a sync that succeeds delivers the result true exactly when it changed the
\* schema in the database (create, alter, drop and recreate), and false exactly when it
\* changed nothing.
C36_AsClaimed ==
  (userCb # <<>> /\ userCb[1].err = NoErr) =>
    /\ userCb[1].result = "true" <=> SchemaChanged
    /\ userCb[1].result = "false" <=> ~SchemaChanged

\* ---- C37
\* the step is the reply handler of a save
SaveReplied == tableOp.kind = "save" /\ tableOp.phase = "executing" /\ tableOp'.phase = "done"

\* the insert of the save replied to in this step was executed and, when conditional, applied
InsertTookEffect ==
  tableOp'.reply = NoErr /\ (instance.if_not_exist => instance'.applied)

\* C37 as claimed: after the reply to a save whose insert was executed and, with
\* if_not_exist, applied, the modified set of the instance is empty, with or without a
\* callback and whatever the after_save hook returns; after a failed insert or a conditional
\* insert that was not applied it is what it was.
C37_AsClaimed ==
  [][SaveReplied =>
       instance'.modified = IF InsertTookEffect THEN {} ELSE instance.modified]_vars

\* ---- C38
\* init has called back with success
InitSucceeded == initCb # <<>> /\ initCb[Len(initCb)] = InitCallback(NoErr)

\* C38 as claimed: once init has completed successfully, every registered model, added before
\* init or after it, holds the query client, the definition connection, the search client and
\* the graph client that the registry holds.
C38_AsClaimed ==
  InitSucceeded =>
    \A n \in ModelNames :
      handles.model[n] # None => handles.model[n][1] = baseHandles(handles.registry)

\* ---- C39
\* the step is a call of find, update, delete or save with options.return_query
ReturnQueryCall == stmt.return_query /\ stmt.outcome = "none" /\ stmt'.outcome # "none"

\* the statement of the call
StatementOf(call) ==
  CASE call.fn = "get_find_query" -> get_find_query(call.args)
    [] call.fn = "update" -> UpdateStatement(call.args)
    [] call.fn = "delete" -> DeleteStatement(call.args)
    [] OTHER -> SaveStatement(call.args)

\* C39: with options.return_query, find, update, delete and save return the text and the
\* parameters of the statement and hand nothing to the driver, leave readiness as it is and
\* do not call the after hook, which runs only when the returned after_hook function is
\* called; the before hook is evaluated all the same, and when it returns false the call is
\* rejected with the before-hook error and returns no statement.
C39_ReturnQuery ==
  /\ [](stmt.return_query =>
          /\ tableOp = NoOp /\ ~ready
          /\ stmt.afterCalled => stmt.outcome = "returned" /\ stmt.after # "uncalled")
  /\ [][ReturnQueryCall =>
          /\ ready' = ready /\ tableOp' = tableOp
          /\ stmt'.after = "uncalled" /\ ~stmt'.afterCalled
          /\ IF stmt.fn \in {"update", "delete", "save"} /\ stmt.before = "false"
               THEN /\ stmt'.outcome = "rejected"
                    /\ stmt'.out = None
                    /\ stmt'.delivered =
                         Some([how |-> IF stmt.cbGiven THEN "callback" ELSE "throw",
                               err |-> "model." \o stmt.fn \o ".before.error"])
               ELSE /\ stmt'.outcome = "returned"
                    /\ stmt'.out = Some(StatementOf(stmt))
                    /\ stmt'.delivered = None]_vars

\* update with return_query and a before hook that does not veto returned its statement;
\* the application then called after_hook and the after hook vetoed; nothing went to the
\* driver
C39_Witness ==
  /\ stmt.fn = "update" /\ stmt.return_query /\ ~stmt.cbGiven
  /\ stmt.before = "undefined"
  /\ stmt.outcome = "returned"
  /\ stmt.out[1].query # ""
  /\ stmt.after = "model.update.after.error" /\ stmt.afterCalled
  /\ tableOp = NoOp /\ ~ready

\* ---- C40
\* the update statement of the call up to its where clause, without conditional suffix
UpdateBase ==
  "UPDATE \"" \o stmt.args.table_name \o "\""
    \o (IF isNumber(stmt.args.ttl) THEN " USING TTL ?" ELSE "")
    \o " SET " \o Join(stmt.args.update.updateClauses, ", ")
    \o " " \o get_where_clause(stmt.args.queryObject).query

\* C40: an update statement has at most one conditional suffix; it ends with IF EXISTS
\* exactly when if_exists is set and no conditions are given; when conditions are given it
\* ends with their IF clause, which may be empty, and never with IF EXISTS, if_exists set or
\* not.
C40_UpdateConditional ==
  Built("update") =>
    LET a == stmt.args
        query == stmt.out[1].query
        ifExists == UpdateBase \o " IF EXISTS;"
    IN /\ \/ query = UpdateBase \o ";"
          \/ query = ifExists
          \/ a.conditions # None /\ query = UpdateBase \o " " \o a.conditions[1].query \o ";"
       /\ query = ifExists <=> (a.if_exists /\ a.conditions = None)
       /\ a.conditions # None =>
            /\ query # ifExists
            /\ query = IF a.conditions[1].query = "" THEN UpdateBase \o ";"
                       ELSE UpdateBase \o " " \o a.conditions[1].query \o ";"

\* an update with if_exists and with conditions ends with the IF clause of the conditions
C40_Witness ==
  /\ Built("update")
  /\ stmt.args.if_exists
  /\ stmt.args.conditions = Some([query |-> "IF \"name\" = ?", params |-> <<21>>])
  /\ stmt.args.ttl = None
  /\ stmt.out[1].query =
       "UPDATE \"events\" SET \"name\"=?, \"age\"=? WHERE \"id\" = ? IF \"name\" = ?;"

====
